---- MODULE Spec2Model ----
(***************************************************************************)
(* A model of the dict (incrementally rehashed hash table) of dict.c /      *)
(* dict.h.  One dict `d` is operated on by its public API; every action is  *)
(* one whole API call.  ht[0]/ht[1] are kept with their table pointer,      *)
(* size, sizemask and used counter exactly as the C struct keeps them; a    *)
(* bucket chain is a sequence of entries, head first.                       *)
(***************************************************************************)
EXTENDS Integers, Sequences, FiniteSets, TLC

\* ------------------------------------------------------------------ bounds
NNodes == 4
NListVals == 2
MaxFail == 4        \* allocations and dup calls of one listDup that may fail
MaxSdsLen == 5      \* longest sds string
MaxArgc == 3        \* longest array of sds strings
NKeys == 4          \* keys the callers use: 1..NKeys
MaxSize == 8        \* largest size a caller passes to dictExpand
NAddr == 3          \* addresses the allocator hands out for bucket arrays
MaxRehashN == 2     \* largest n a caller passes to dictRehash
NLoadKeys == 25     \* keys of a caller that fills a table past the forced ratio
MaxUnlinked == 2    \* entries a caller holds between dictUnlink and the free

\* ------------------------------------------------------- program constants
DICT_OK == 0
DICT_ERR == 1
DICT_HT_INITIAL_SIZE == 4
dict_force_resize_ratio == 5
NULL == 0
ULONG_MAX == 2147483647  \* stands for 2^64 - 1, the wrap point of `iterators`

Keys == 1..NKeys
\* the keys of a caller that adds during a safe iteration: one more, so that a
\* new key can find every key of Keys already stored
AddKeys == 1..(NKeys + 1)
\* the keys of a caller that fills the dict key by key
LoadKeys == 1..NLoadKeys
\* a key whose bucket is the last one of a table of 32: the buckets before it
\* are empty when the caller stores this key and key 1 only
FarKey == NLoadKeys + 1
AllKeys == AddKeys \cup LoadKeys \cup {FarKey}
\* the values stored: the dict never inspects a value, so two are enough to
\* tell the value stored last from an earlier one
Vals == {1, 2}
\* the keys used around an iteration
IterKeys == 1..(NKeys - 1)
Addrs == 1..NAddr

\* The hashFunction callback of the dictType: a fixed function of the key.
\* Keys 1 and 2 share a bucket in a table of 4 and split in a table of 8;
\* keys 3 and 4 share a bucket in tables of 4 and 8 and split in a table of 16.
HashTable == <<0, 4, 1, 9, 2, 3, 6, 7>>
dictHashKey(key) ==
    IF key > NLoadKeys THEN 31 ELSE HashTable[((key - 1) % 8) + 1]

\* h & sizemask for a sizemask of the form 2^j - 1
BitAnd(h, sizemask) == h % (sizemask + 1)

\* ----------------------------------------------------------------- state
VARIABLES
    d,              \* the dict: ht[0..1], rehashidx, iterators
    dict_can_resize,\* the global resize flag
    live,           \* what the callers stored: key -> value, 0 when absent
    aborted,        \* "" or the assertion / fault that stopped the program
    iter,           \* the dictIterator in use, NoIter when there is none
    scan,           \* the dictScan in progress, NoScan when there is none
    unlinked,       \* the entries dictUnlink returned, not freed yet
    zmap,           \* the zipmap: its bytes
    zset,           \* what the callers stored in the zipmap: key -> value
    zout,           \* what the last zipmap call returned
    lst,            \* the lists: the nodes, the list headers, the freed values
    liter,          \* the listIter in use, NoListIter when there is none
    lout,           \* what the last list call returned
    sx,             \* the sds string in use, NoSds when there is none
    sargv,          \* an array of sds strings
    sout            \* what the last sds call was given and returned

dvars == <<d, dict_can_resize, live, aborted, iter, scan, unlinked>>
zvars == <<zmap, zset, zout>>
lvars == <<lst, liter, lout>>
svars == <<sx, sargv, sout>>
nondict == <<zvars, lvars, svars>>
vars == <<dvars, zvars, lvars, svars>>

\* _dictReset
NullHt == [table |-> NULL, size |-> 0, sizemask |-> 0, used |-> 0,
           buckets |-> <<>>]

dictIsRehashing(dd) == dd.rehashidx # -1
dictSize(dd) == dd.ht[0].used + dd.ht[1].used

\* the result of a call: the dict after it, the return value, an abort reason,
\* and alloc: 0 when the call allocated no bucket array, 1 when it allocated
\* one at the address given, 2 when the address given was that of a live array
\* evts: the calls of the dictType callbacks and of zfree on entries that the
\* call has made, in order
Res(dd, ret) ==
    [d |-> dd, ret |-> ret, abort |-> "", alloc |-> 0, evts |-> <<>>]
Abort(dd, why) ==
    [d |-> dd, ret |-> -1, abort |-> why, alloc |-> 0, evts |-> <<>>]

\* dictSetVal stores val (through valDup when the dictType has one)
SetValEvt(val) == [op |-> "setval", x |-> val]
\* dictFreeKey, dictFreeVal: the destructor is called on the key, the value
FreeKeyEvt(key) == [op |-> "freekey", x |-> key]
FreeValEvt(val) == [op |-> "freeval", x |-> val]
\* zfree(he) of the entry of key
ZfreeEvt(key) == [op |-> "zfree", x |-> key]

\* ------------------------------------------------------------- chain helpers
Head1(chain) == IF chain = <<>> THEN NULL ELSE chain[1].key
ChainKeys(chain) == {chain[i].key : i \in 1..Len(chain)}
HtKeys(ht) == UNION {ChainKeys(ht.buckets[i]) : i \in DOMAIN ht.buckets}
DictKeys(dd) == HtKeys(dd.ht[0]) \cup HtKeys(dd.ht[1])
HtCount(ht) == LET RECURSIVE Sum(_)
                   Sum(i) == IF i >= ht.size THEN 0
                             ELSE Len(ht.buckets[i]) + Sum(i + 1)
               IN Sum(0)

\* the position of key in chain, 0 when absent (the walk `while(he)`)
RECURSIVE PosFrom(_, _, _)
PosFrom(chain, key, i) ==
    IF i > Len(chain) THEN 0
    ELSE IF chain[i].key = key THEN i
    ELSE PosFrom(chain, key, i + 1)
Pos(chain, key) == PosFrom(chain, key, 1)

RemoveAt(chain, p) == SubSeq(chain, 1, p - 1) \o SubSeq(chain, p + 1, Len(chain))

\* ---------------------------------------------------------------- dictExpand
RECURSIVE NextPowFrom(_, _)
NextPowFrom(i, size) == IF i >= size THEN i ELSE NextPowFrom(i * 2, size)
\* (the size >= LONG_MAX branch is out of reach of the sizes used here)
dictNextPower(size) == NextPowFrom(DICT_HT_INITIAL_SIZE, size)

\* zcalloc returns an address no live bucket array has: the address a the
\* caller of the model names, or the lowest one when a = 0.  (Nothing but
\* dictFingerprint reads a table address.)
zcalloc(dd, a) ==
    IF a # 0 THEN a
    ELSE CHOOSE x \in Addrs :
             /\ x \notin {dd.ht[0].table, dd.ht[1].table}
             /\ \A y \in 1..(x - 1) : y \in {dd.ht[0].table, dd.ht[1].table}

dictExpand(dd, size, a) ==
    IF dictIsRehashing(dd) \/ dd.ht[0].used > size THEN Res(dd, DICT_ERR)
    ELSE LET realsize == dictNextPower(size)
             n == [table |-> zcalloc(dd, a), size |-> realsize,
                   sizemask |-> realsize - 1, used |-> 0,
                   buckets |-> [i \in 0..(realsize - 1) |-> <<>>]]
             bad == n.table \in {dd.ht[0].table, dd.ht[1].table}
         IN IF realsize = dd.ht[0].size THEN Res(dd, DICT_ERR)
            ELSE IF dd.ht[0].table = NULL
                 THEN [Res([dd EXCEPT !.ht[0] = n], DICT_OK) EXCEPT !.alloc = IF bad THEN 2 ELSE 1]
                 ELSE [Res([dd EXCEPT !.ht[1] = n, !.rehashidx = 0], DICT_OK)
                          EXCEPT !.alloc = IF bad THEN 2 ELSE 1]

dictResize(dd, canResize, a) ==
    IF ~canResize \/ dictIsRehashing(dd) THEN Res(dd, DICT_ERR)
    ELSE LET minimal == IF dd.ht[0].used < DICT_HT_INITIAL_SIZE
                        THEN DICT_HT_INITIAL_SIZE ELSE dd.ht[0].used
         IN dictExpand(dd, minimal, a)

\* ---------------------------------------------------------------- dictRehash
\* move the chain at ht[0].buckets[idx] entry by entry to the heads of the
\* chains of ht[1]
\* a faulty variant: the bucket is emptied, its entries are neither moved
\* nor counted
MoveChainDrop(dd, idx, chain) == [dd EXCEPT !.ht[0].buckets[idx] = <<>>]

RECURSIVE MoveChain(_, _, _)
MoveChain(dd, idx, chain) ==
    IF chain = <<>> THEN [dd EXCEPT !.ht[0].buckets[idx] = <<>>]
    ELSE LET de == Head(chain)
             h == BitAnd(dictHashKey(de.key), dd.ht[1].sizemask)
         IN MoveChain([dd EXCEPT !.ht[1].buckets[h] = <<de>> \o @,
                                  !.ht[0].used = @ - 1,
                                  !.ht[1].used = @ + 1],
                      idx, Tail(chain))

\* faulty variants of the check made after the loop: ht[1] is not reset; the
\* rehash is declared finished with one entry left in ht[0]
RehashFinishKeepSecond(dd) ==
    IF dd.ht[0].used = 0
    THEN Res([dd EXCEPT !.ht[0] = dd.ht[1], !.rehashidx = -1], 0)
    ELSE Res(dd, 1)

RehashFinishEarly(dd) ==
    IF dd.ht[0].used <= 1
    THEN Res([dd EXCEPT !.ht[0] = dd.ht[1], !.ht[1] = NullHt,
                        !.rehashidx = -1], 0)
    ELSE Res(dd, 1)

\* the check made after the loop
RehashFinish(dd) ==
    IF dd.ht[0].used = 0
    THEN Res([dd EXCEPT !.ht[0] = dd.ht[1], !.ht[1] = NullHt,
                        !.rehashidx = -1], 0)
    ELSE Res(dd, 1)

RECURSIVE RehashLoop(_, _, _)
RECURSIVE RehashSkip(_, _, _)
\* while(n-- && d->ht[0].used != 0)
RehashLoop(dd, n, empty_visits) ==
    IF n = 0 \/ dd.ht[0].used = 0 THEN RehashFinish(dd)
    ELSE IF ~(dd.ht[0].size > dd.rehashidx) THEN Abort(dd, "assert rehashidx")
    ELSE RehashSkip(dd, n, empty_visits)
\* while(d->ht[0].table[d->rehashidx] == NULL), then the move of the chain
RehashSkip(dd, n, empty_visits) ==
    IF dd.rehashidx >= dd.ht[0].size THEN Abort(dd, "read past table")
    ELSE IF dd.ht[0].buckets[dd.rehashidx] = <<>>
    THEN IF empty_visits - 1 = 0
         THEN Res([dd EXCEPT !.rehashidx = @ + 1], 1)
         ELSE RehashSkip([dd EXCEPT !.rehashidx = @ + 1], n, empty_visits - 1)
    ELSE LET moved == MoveChain(dd, dd.rehashidx,
                                dd.ht[0].buckets[dd.rehashidx])
         IN RehashLoop([moved EXCEPT !.rehashidx = @ + 1], n - 1, empty_visits)

\* a faulty variant: 20 empty buckets are visited for every bucket to move
dictRehashTwenty(dd, n) ==
    IF ~dictIsRehashing(dd) THEN Res(dd, 0)
    ELSE RehashLoop(dd, n, n * 20)

dictRehash(dd, n) ==
    IF ~dictIsRehashing(dd) THEN Res(dd, 0)
    ELSE RehashLoop(dd, n, n * 10)

\* a faulty variant: the step does not look at the iterators count
dictRehashStepAlways(dd) == dictRehash(dd, 1)

\* a faulty variant: the step is never taken
dictRehashStepNever(dd) == Res(dd, 0)

\* a faulty variant: the step moves two buckets
dictRehashStepTwo(dd) ==
    IF dd.iterators = 0 THEN dictRehash(dd, 2) ELSE Res(dd, 0)

dictRehashStep(dd) ==
    IF dd.iterators = 0 THEN dictRehash(dd, 1) ELSE Res(dd, 0)

\* `if (dictIsRehashing(d)) _dictRehashStep(d);` as the callers write it
StepIfRehashing(dd) == IF dictIsRehashing(dd) THEN dictRehashStep(dd)
                       ELSE Res(dd, 0)

\* -------------------------------------------------- the two-table key search
\* A reference to an entry: table t, bucket idx, position pos in the chain.
NoRef == [t |-> -1, idx |-> 0, pos |-> 0]
BadRef == [t |-> -2, idx |-> 0, pos |-> 0]     \* a NULL table was indexed

\* a faulty variant: the walk of the chain never finds the key
SearchTableMiss(dd, key, t) == NoRef

\* for (table = 0; table <= 1; table++) { idx = h & sizemask; walk the chain;
\* if (!dictIsRehashing(d)) break; }  -- shared by dictFind, dictGenericDelete
\* and _dictKeyIndex
SearchTable(dd, key, t) ==
    IF dd.ht[t].table = NULL THEN BadRef
    ELSE LET idx == BitAnd(dictHashKey(key), dd.ht[t].sizemask)
             p == Pos(dd.ht[t].buckets[idx], key)
         IN IF p > 0 THEN [t |-> t, idx |-> idx, pos |-> p] ELSE NoRef

\* a faulty variant: only ht[0] is searched
SearchTablesFirstOnly(dd, key) == SearchTable(dd, key, 0)

SearchTables(dd, key) ==
    LET r0 == SearchTable(dd, key, 0)
    IN IF r0.t # -1 THEN r0
       ELSE IF ~dictIsRehashing(dd) THEN NoRef
       ELSE SearchTable(dd, key, 1)

EntryAt(dd, ref) == dd.ht[ref.t].buckets[ref.idx][ref.pos]

\* ------------------------------------------------------ insert and replace
\* a faulty variant: the forced expansion starts at the ratio itself
dictExpandIfNeededAtRatio(dd, canResize, a) ==
    IF dictIsRehashing(dd) THEN Res(dd, DICT_OK)
    ELSE IF dd.ht[0].size = 0 THEN dictExpand(dd, DICT_HT_INITIAL_SIZE, a)
    ELSE IF dd.ht[0].used >= dd.ht[0].size
            /\ (canResize
                \/ (dd.ht[0].used \div dd.ht[0].size) >= dict_force_resize_ratio)
    THEN dictExpand(dd, dd.ht[0].used * 2, a)
    ELSE Res(dd, DICT_OK)

dictExpandIfNeeded(dd, canResize, a) ==
    IF dictIsRehashing(dd) THEN Res(dd, DICT_OK)
    ELSE IF dd.ht[0].size = 0 THEN dictExpand(dd, DICT_HT_INITIAL_SIZE, a)
    ELSE IF dd.ht[0].used >= dd.ht[0].size
            /\ (canResize
                \/ (dd.ht[0].used \div dd.ht[0].size) > dict_force_resize_ratio)
    THEN dictExpand(dd, dd.ht[0].used * 2, a)
    ELSE Res(dd, DICT_OK)

\* The result of _dictKeyIndex: ret is the bucket index for the new entry or
\* -1; existing is the entry found (NoRef when there is none).
\* e is the result of _dictExpandIfNeeded, ref what the table loop finds.
KeyIndexFound(e, ref, key) ==
    IF ref.t = -2
    THEN [d |-> e.d, ret |-> -1, existing |-> NoRef, abort |-> "null table",
          alloc |-> e.alloc]
    ELSE IF ref.t >= 0
    THEN [d |-> e.d, ret |-> -1, existing |-> ref, abort |-> "",
          alloc |-> e.alloc]
    ELSE [d |-> e.d,
          ret |-> BitAnd(dictHashKey(key),
                         e.d.ht[IF dictIsRehashing(e.d) THEN 1 ELSE 0].sizemask),
          existing |-> NoRef, abort |-> "", alloc |-> e.alloc]

KeyIndexSearch(e, key) ==
    IF e.ret = DICT_ERR
    THEN [d |-> e.d, ret |-> -1, existing |-> NoRef, abort |-> "",
          alloc |-> e.alloc]
    ELSE KeyIndexFound(e, SearchTables(e.d, key), key)

dictKeyIndex(dd, key, canResize, a) ==
    KeyIndexSearch(dictExpandIfNeeded(dd, canResize, a), key)

\* a faulty variant: new entries always go to ht[0]
InsertTableFirst(dd) == 0

\* ht = dictIsRehashing(d) ? &d->ht[1] : &d->ht[0]
InsertTable(dd) == IF dictIsRehashing(dd) THEN 1 ELSE 0

\* The result of dictAddRaw: entry is the new entry (NoRef when the key
\* exists); its value is not set yet.
\* ki is the result of _dictKeyIndex, t the table the entry goes to.
AddRawInsert(ki, t, key) ==
    IF ki.ret = -1
    THEN [d |-> ki.d, entry |-> NoRef, existing |-> ki.existing,
          abort |-> ki.abort, alloc |-> ki.alloc]
    ELSE [d |-> [ki.d EXCEPT
                   !.ht[t].buckets[ki.ret] = <<[key |-> key, val |-> NULL]>> \o @,
                   !.ht[t].used = @ + 1],
          entry |-> [t |-> t, idx |-> ki.ret, pos |-> 1],
          existing |-> NoRef, abort |-> "", alloc |-> ki.alloc]

AddRawAt(ki, key) == AddRawInsert(ki, InsertTable(ki.d), key)

\* s is the result of the rehash step
AddRawIndex(s, key, canResize, a) ==
    IF s.abort # ""
    THEN [d |-> s.d, entry |-> NoRef, existing |-> NoRef, abort |-> s.abort,
          alloc |-> 0]
    ELSE AddRawAt(dictKeyIndex(s.d, key, canResize, a), key)

dictAddRaw(dd, key, canResize, a) ==
    AddRawIndex(StepIfRehashing(dd), key, canResize, a)

dictSetVal(dd, ref, val) ==
    [dd EXCEPT !.ht[ref.t].buckets[ref.idx][ref.pos].val = val]

\* r is the result of dictAddRaw
AddSetVal(r, val) ==
    IF r.abort # "" THEN [Abort(r.d, r.abort) EXCEPT !.alloc = r.alloc]
    ELSE IF r.entry = NoRef THEN [Res(r.d, DICT_ERR) EXCEPT !.alloc = r.alloc]
    ELSE [Res(dictSetVal(r.d, r.entry, val), DICT_OK)
             EXCEPT !.alloc = r.alloc, !.evts = <<SetValEvt(val)>>]

dictAdd(dd, key, val, canResize, a) ==
    AddSetVal(dictAddRaw(dd, key, canResize, a), val)

\* a faulty variant: the old value is freed before the new one is set
ReplaceEvtsFreeFirst(old, val) == <<FreeValEvt(old), SetValEvt(val)>>

\* lines 411-413: auxentry = *existing; dictSetVal(existing, val);
\* dictFreeVal(&auxentry)
ReplaceEvts(old, val) == <<SetValEvt(val), FreeValEvt(old)>>

\* r is the result of dictAddRaw
ReplaceSetVal(r, val) ==
    IF r.abort # "" THEN [Abort(r.d, r.abort) EXCEPT !.alloc = r.alloc]
    ELSE IF r.entry # NoRef
    THEN [Res(dictSetVal(r.d, r.entry, val), 1)
             EXCEPT !.alloc = r.alloc, !.evts = <<SetValEvt(val)>>]
    ELSE IF r.existing = NoRef
    THEN [Abort(r.d, "null existing") EXCEPT !.alloc = r.alloc]
    ELSE [Res(dictSetVal(r.d, r.existing, val), 0)
             EXCEPT !.alloc = r.alloc,
                    !.evts = ReplaceEvts(EntryAt(r.d, r.existing).val, val)]

dictReplace(dd, key, val, canResize, a) ==
    ReplaceSetVal(dictAddRaw(dd, key, canResize, a), val)

\* r is the result of dictAddRaw; ret is the key of the entry returned
AddOrFindEntry(r, key) ==
    IF r.abort # "" THEN [Abort(r.d, r.abort) EXCEPT !.alloc = r.alloc]
    ELSE IF r.entry = NoRef /\ r.existing = NoRef
    THEN [Res(r.d, NULL) EXCEPT !.alloc = r.alloc]
    ELSE [Res(r.d, key) EXCEPT !.alloc = r.alloc]

dictAddOrFind(dd, key, canResize, a) ==
    AddOrFindEntry(dictAddRaw(dd, key, canResize, a), key)

\* ------------------------------------------------------------ delete, find
\* s is the result of the rehash step, ref what the table loop finds
\* dictFreeKey(d, he); dictFreeVal(d, he); zfree(he);
FreeEntryEvts(key, val) == <<FreeKeyEvt(key), FreeValEvt(val), ZfreeEvt(key)>>

DeleteUnlink(s, ref, key, nofree) ==
    IF s.abort # "" THEN s
    ELSE IF ref.t = -2 THEN Abort(s.d, "null table")
    ELSE IF ref.t = -1 THEN Res(s.d, NULL)
    ELSE [Res([s.d EXCEPT !.ht[ref.t].buckets[ref.idx] = RemoveAt(@, ref.pos),
                          !.ht[ref.t].used = @ - 1], key)
             EXCEPT !.evts = IF nofree = 0
                             THEN FreeEntryEvts(key, EntryAt(s.d, ref).val)
                             ELSE <<>>]

DeleteSearch(s, key, nofree) ==
    DeleteUnlink(s, SearchTables(s.d, key), key, nofree)

\* ret is the key of the entry removed, NULL when not found
dictGenericDelete(dd, key, nofree) ==
    IF dd.ht[0].used = 0 /\ dd.ht[1].used = 0 THEN Res(dd, NULL)
    ELSE DeleteSearch(StepIfRehashing(dd), key, nofree)

DeleteStatus(r) ==
    IF r.abort # "" THEN r
    ELSE [Res(r.d, IF r.ret # NULL THEN DICT_OK ELSE DICT_ERR)
             EXCEPT !.evts = r.evts]

dictDelete(dd, key) == DeleteStatus(dictGenericDelete(dd, key, 0))

\* a faulty variant: dictUnlink frees the entry it returns
dictUnlinkFreeing(dd, key) == dictGenericDelete(dd, key, 0)

\* ret is the key of the entry detached, NULL when not found
dictUnlink(dd, key) == dictGenericDelete(dd, key, 1)

\* a NULL entry pointer
NoEntry == [key |-> NULL]

\* the callback calls of dictFreeUnlinkedEntry; he is NoEntry or an entry
dictFreeUnlinkedEntry(he) ==
    IF he = NoEntry THEN <<>> ELSE FreeEntryEvts(he.key, he.val)

FindEntry(s, ref) ==
    IF s.abort # "" THEN s
    ELSE IF ref.t = -2 THEN Abort(s.d, "null table")
    ELSE IF ref.t = -1 THEN Res(s.d, NULL)
    ELSE Res(s.d, EntryAt(s.d, ref).val)

FindSearch(s, key) == FindEntry(s, SearchTables(s.d, key))

\* ret is the value of the entry found, NULL when there is none
dictFind(dd, key) ==
    IF dd.ht[0].used + dd.ht[1].used = 0 THEN Res(dd, NULL)
    ELSE FindSearch(StepIfRehashing(dd), key)

\* the state change of dictGetRandomKey (the entry it picks is not kept)
dictGetRandomKey(dd) ==
    IF dictSize(dd) = 0 THEN Res(dd, NULL)
    ELSE StepIfRehashing(dd)

\* _dictClear on both tables, then the reset of rehashidx and iterators
dictEmpty(dd) ==
    [dd EXCEPT !.ht[0] = NullHt, !.ht[1] = NullHt, !.rehashidx = -1,
               !.iterators = 0]

\* ---------------------------------------------------------------- iterators
\* dictFingerprint: a deterministic mix of the six numbers listed; the model
\* keeps the six numbers themselves (the mix of equal inputs is equal).
\* a faulty variant: only the two sizes are fingerprinted
dictFingerprintSizes(dd) == <<dd.ht[0].size, dd.ht[1].size>>

dictFingerprint(dd) ==
    <<dd.ht[0].table, dd.ht[0].size, dd.ht[0].used,
      dd.ht[1].table, dd.ht[1].size, dd.ht[1].used>>

NoIter == [table |-> -1]

\* An entry pointer is the key of the entry it points to (NULL = 0).  The
\* fields after `fingerprint` are bookkeeping of the model, not of the struct:
\*   nextFreed  nextEntry points to an entry that has been freed
\*   uaf        dictNext has read a freed entry through this iterator; from
\*              then on its pointers are whatever the freed memory held
\*   seen       the keys dictNext has returned, in order     (both kept only
\*   stable     the keys in the dict at the first dictNext    while ops is
\*                                                            within {"add"})
\*   done       dictNext has returned NULL
\*   ops        the dict calls made between the first dictNext and the one that
\*              returned NULL: {} none, {"add"} dictAdd only, {"del"}
\*              dictDelete only, {"mixed"} anything else (also a call made
\*              after dictNext returned NULL)
\*   mutated    (unsafe iterators) a dictAdd or dictDelete since the first
\*              dictNext added or removed an entry
\*   snap       (unsafe iterators) table, size and used of ht[0] and ht[1] as
\*              they were at the first dictNext
\*   startIdx   (safe iterators) rehashidx as it was at the first dictNext, -2
\*              before it; kept as seen and stable are
dictGetIterator ==
    [table |-> 0, index |-> -1, safe |-> FALSE, entry |-> NULL,
     nextEntry |-> NULL, fingerprint |-> <<>>,
     nextFreed |-> FALSE, uaf |-> FALSE, seen |-> <<>>, stable |-> {},
     done |-> FALSE, ops |-> {}, mutated |-> FALSE, snap |-> <<>>,
     startIdx |-> -2]

dictGetSafeIterator == [dictGetIterator EXCEPT !.safe = TRUE]

Advanced(it) == it # NoIter /\ ~(it.index = -1 /\ it.table = 0)

Inc(x) == IF x = ULONG_MAX THEN 0 ELSE x + 1
Dec(x) == IF x = 0 THEN ULONG_MAX ELSE x - 1

\* entry->next for the entry with the given key, wherever it is chained now
\* a faulty variant: the next pointer of every entry reads NULL
NextInHtEnd(ht, key) == IF ht.table = NULL THEN -1 ELSE NULL

NextInHt(ht, key) ==
    IF ht.table = NULL THEN -1
    ELSE LET idx == BitAnd(dictHashKey(key), ht.sizemask)
             p == Pos(ht.buckets[idx], key)
         IN IF p = 0 THEN -1
            ELSE IF p = Len(ht.buckets[idx]) THEN NULL
            ELSE ht.buckets[idx][p + 1].key
EntryNext(dd, key) ==
    IF NextInHt(dd.ht[0], key) # -1 THEN NextInHt(dd.ht[0], key)
    ELSE NextInHt(dd.ht[1], key)

\* The result of dictNext: the iterator and dict after it, the key returned
\* (NULL at the end), abort.
NextRes(it, dd, ret, abort) == [it |-> it, d |-> dd, ret |-> ret, abort |-> abort]

\* a faulty variant: the entry is returned and its next pointer not saved
NextReturnNoSave(it, dd, e) ==
    NextRes([it EXCEPT !.entry = e, !.nextEntry = NULL, !.nextFreed = FALSE],
            dd, e, "")

\* lines 705-711: return the entry, saving its next pointer
NextReturn(it, dd, e) ==
    NextRes([it EXCEPT !.entry = e, !.nextEntry = EntryNext(dd, e),
                       !.nextFreed = FALSE], dd, e, "")

\* the iterator once it holds pointers read from freed memory
Garbage(it) ==
    [it EXCEPT !.uaf = TRUE, !.table = 0, !.index = 0, !.entry = NULL,
               !.nextEntry = NULL, !.nextFreed = FALSE, !.seen = <<>>,
               !.stable = {}, !.startIdx = -2]

\* u is the outcome of a call that reads freed memory: -1 the program
\* crashes, else the pointer the call returns (any entry, or NULL)
RECURSIVE dictNext(_, _, _)
dictNext(it, dd, u) ==
    IF it.uaf
    THEN IF u = -1 THEN NextRes(it, dd, NULL, "crash")
         ELSE NextRes(it, dd, u, "")
    ELSE IF it.entry = NULL
    THEN LET first == it.index = -1 /\ it.table = 0
             dd1 == IF first /\ it.safe
                    THEN [dd EXCEPT !.iterators = Inc(@)] ELSE dd
             it1 == IF first /\ ~it.safe
                    THEN [it EXCEPT !.fingerprint = dictFingerprint(dd)] ELSE it
             idx == it.index + 1
         IN IF idx >= dd1.ht[it.table].size
            THEN IF dictIsRehashing(dd1) /\ it.table = 0
                 THEN IF dd1.ht[1].table = NULL
                      THEN NextRes(it1, dd1, NULL, "null table")
                      ELSE LET e == Head1(dd1.ht[1].buckets[0])
                               it2 == [it1 EXCEPT !.table = 1, !.index = 0]
                           IN IF e # NULL THEN NextReturn(it2, dd1, e)
                              ELSE dictNext(it2, dd1, u)
                 ELSE NextRes([it1 EXCEPT !.index = idx], dd1, NULL, "")
            ELSE LET e == Head1(dd1.ht[it.table].buckets[idx])
                     it2 == [it1 EXCEPT !.index = idx]
                 IN IF e # NULL THEN NextReturn(it2, dd1, e)
                    ELSE dictNext(it2, dd1, u)
    ELSE IF it.nextEntry = NULL
         THEN dictNext([it EXCEPT !.entry = NULL], dd, u)
         ELSE IF it.nextFreed
              \* iter->entry = iter->nextEntry is a freed entry, and
              \* iter->entry->next is read from it
              THEN IF u = -1
                   THEN NextRes(Garbage(it), dd, NULL, "crash")
                   ELSE NextRes(Garbage(it), dd, it.nextEntry, "")
              ELSE NextReturn(it, dd, it.nextEntry)

\* ret: 1 released, 0 the assertion failed
dictReleaseIterator(it, dd) ==
    IF ~(it.index = -1 /\ it.table = 0)
    THEN IF it.safe THEN Res([dd EXCEPT !.iterators = Dec(@)], 1)
         ELSE IF it.fingerprint = dictFingerprint(dd) THEN Res(dd, 1)
         ELSE Abort(dd, "assert fingerprint")
    ELSE Res(dd, 1)

\* ------------------------------------------------- values and destructors
\* What a sequence of callback calls does to the values when they are
\* reference counted, valDup taking a reference and valDestructor dropping
\* one: rc is the count of every value, Dead the outcome of a call on a value
\* whose count is 0.
Dead == [x \in Vals |-> -1]
RECURSIVE CountedAfter(_, _)
CountedAfter(evts, rc) ==
    IF evts = <<>> \/ rc = Dead THEN rc
    ELSE LET e == Head(evts)
         IN IF e.op = "setval"
            THEN CountedAfter(Tail(evts), IF rc[e.x] = 0 THEN Dead
                                          ELSE [rc EXCEPT ![e.x] = @ + 1])
            ELSE IF e.op = "freeval"
            THEN CountedAfter(Tail(evts), IF rc[e.x] = 0 THEN Dead
                                          ELSE [rc EXCEPT ![e.x] = @ - 1])
            ELSE CountedAfter(Tail(evts), rc)

\* The same when the dictType has no valDup and valDestructor frees the
\* value: alive is the set of values not freed, {} after a call on a freed
\* value.
RECURSIVE PlainAfter(_, _)
PlainAfter(evts, alive) ==
    IF evts = <<>> \/ alive = {} THEN alive
    ELSE LET e == Head(evts)
         IN IF e.op \in {"setval", "freeval"} /\ e.x \notin alive THEN {}
            ELSE IF e.op = "freeval"
            THEN PlainAfter(Tail(evts), alive \ {e.x})
            ELSE PlainAfter(Tail(evts), alive)

\* ---------------------------------------------------------------- dictScan
\* unsigned long arithmetic of the cursor, CursorBits wide
CursorBits == 8
CursorMod == 2 ^ CursorBits

RECURSIVE CursorAndFrom(_, _, _)
CursorAndFrom(a, b, n) ==
    IF n = 0 THEN 0
    ELSE (a % 2) * (b % 2) + 2 * CursorAndFrom(a \div 2, b \div 2, n - 1)
CursorAnd(a, b) == CursorAndFrom(a, b, CursorBits)
CursorNot(a) == (CursorMod - 1) - a
CursorOr(a, b) == CursorNot(CursorAnd(CursorNot(a), CursorNot(b)))
CursorXor(a, b) == CursorAnd(CursorOr(a, b), CursorNot(CursorAnd(a, b)))
ShiftLeft(a, s) == (a * 2 ^ s) % CursorMod
ShiftRight(a, s) == a \div (2 ^ s)

\* the loop of rev: s is halved, then the halves of every 2s-bit group of v
\* are swapped
RECURSIVE revLoop(_, _, _)
revLoop(v, s, mask) ==
    LET s1 == s \div 2
        mask1 == CursorXor(mask, ShiftLeft(mask, s1))
    IN IF s1 = 0 THEN v
       ELSE revLoop(CursorOr(CursorAnd(ShiftRight(v, s1), mask1),
                             CursorAnd(ShiftLeft(v, s1), CursorNot(mask1))),
                    s1, mask1)

\* a faulty variant: the cursor is not reversed
revNone(v) == v

\* rev of every cursor value
revAll == [v \in 0..(CursorMod - 1) |-> revLoop(v, CursorBits, CursorNot(0))]

rev(v) == revAll[v]

\* v |= ~m; v = rev(v); v++; v = rev(v);
NextCursor(v, m) == rev((rev(CursorOr(v, CursorNot(m))) + 1) % CursorMod)

\* the keys a dictScan call passes to fn, and the cursor it returns
ScanRes(v, keys) == [v |-> v, keys |-> keys]

BucketKeys(ht, v) == ChainKeys(ht.buckets[CursorAnd(v, ht.sizemask)])

\* the do-while over the buckets of the larger table
RECURSIVE ScanLarger(_, _, _, _)
ScanLarger(t1, m0, v, keys) ==
    LET v1 == NextCursor(v, t1.sizemask)
        keys1 == keys \cup BucketKeys(t1, v)
    IN IF CursorAnd(v1, CursorXor(m0, t1.sizemask)) # 0
       THEN ScanLarger(t1, m0, v1, keys1)
       ELSE ScanRes(v1, keys1)

dictScan(dd, v) ==
    IF dictSize(dd) = 0 THEN ScanRes(0, {})
    ELSE IF ~dictIsRehashing(dd)
    THEN ScanRes(NextCursor(v, dd.ht[0].sizemask), BucketKeys(dd.ht[0], v))
    ELSE LET swap == dd.ht[0].size > dd.ht[1].size
             t0 == IF swap THEN dd.ht[1] ELSE dd.ht[0]
             t1 == IF swap THEN dd.ht[0] ELSE dd.ht[1]
         IN ScanLarger(t1, t0.sizemask, v, BucketKeys(t0, v))

NoScan == [v |-> -1]

\* A scan in progress: v the cursor the last dictScan call returned.  The
\* other fields are bookkeeping of the model:
\*   stable   the keys in the dict ever since the call with cursor 0
\*   pending  the keys of stable not passed to fn yet
\*   done     the last call returned 0
\*   size     ht[0].size at the call with cursor 0
StartScan(dd) ==
    [v |-> 0, stable |-> DictKeys(dd), pending |-> DictKeys(dd),
     done |-> FALSE, size |-> dd.ht[0].size]

\* ------------------------------------------------------------------ zipmap
ZIPMAP_BIGLEN == 254
ZIPMAP_END == 255
ZIPMAP_VALUE_MAX_FREE == 4

\* A zipmap is the sequence of its bytes; the byte at the C offset p is
\* At(zm, p).  A pointer into the zipmap is its offset, NoPtr is NULL.
At(zm, p) == zm[p + 1]
NoPtr == -1
\* a byte of a block that realloc has grown and nothing has written yet
Uninit == 256

ZIPMAP_LEN_BYTES(l) == IF l < ZIPMAP_BIGLEN THEN 1 ELSE 4 + 1

zipmapNew == <<0, ZIPMAP_END>>

\* the four bytes after the first one hold the length, low byte first
zipmapDecodeLength(zm, p) ==
    IF At(zm, p) < ZIPMAP_BIGLEN THEN At(zm, p)
    ELSE At(zm, p + 1) + 256 * At(zm, p + 2) + 65536 * At(zm, p + 3)
         + 16777216 * At(zm, p + 4)

\* the bytes zipmapEncodeLength writes
zipmapEncodeLength(len) ==
    IF len < ZIPMAP_BIGLEN THEN <<len>>
    ELSE <<ZIPMAP_BIGLEN, len % 256, (len \div 256) % 256,
           (len \div 65536) % 256, (len \div 16777216) % 256>>

zipmapRawKeyLength(zm, p) ==
    ZIPMAP_LEN_BYTES(zipmapDecodeLength(zm, p)) + zipmapDecodeLength(zm, p)

zipmapRawValueLength(zm, p) ==
    ZIPMAP_LEN_BYTES(zipmapDecodeLength(zm, p))
    + At(zm, p + ZIPMAP_LEN_BYTES(zipmapDecodeLength(zm, p)))
    + 1 + zipmapDecodeLength(zm, p)

zipmapRawEntryLength(zm, p) ==
    zipmapRawKeyLength(zm, p)
    + zipmapRawValueLength(zm, p + zipmapRawKeyLength(zm, p))

\* the free byte of the entry at p
FreeAt(zm, p) ==
    At(zm, p + zipmapRawKeyLength(zm, p)
         + ZIPMAP_LEN_BYTES(zipmapDecodeLength(zm,
                                               p + zipmapRawKeyLength(zm, p))))

\* memcmp(p + llen, key, l) == 0
KeyAt(zm, p, key) ==
    /\ zipmapDecodeLength(zm, p) = Len(key)
    /\ \A i \in 1..Len(key) :
          At(zm, p + ZIPMAP_LEN_BYTES(Len(key)) + i - 1) = key[i]

\* the entry after the one at p: the key, the value length, the free byte,
\* the value and its free bytes are skipped
SkipEntry(zm, p) ==
    (p + ZIPMAP_LEN_BYTES(zipmapDecodeLength(zm, p))
       + zipmapDecodeLength(zm, p))
    + zipmapRawValueLength(zm, p + ZIPMAP_LEN_BYTES(zipmapDecodeLength(zm, p))
                                 + zipmapDecodeLength(zm, p))

\* One pass of the loop of zipmapLookupRaw when totlen is given: p walks the
\* entries and k is the first entry whose key matches (NoPtr while there is
\* none); at the end byte the loop is over and s stays.
LookupStep(zm, key, s) ==
    IF At(zm, s.p) = ZIPMAP_END THEN s
    ELSE [p |-> SkipEntry(zm, s.p),
          k |-> IF s.k = NoPtr /\ KeyAt(zm, s.p, key) THEN s.p ELSE s.k]

\* n passes of the loop from s, as two halves; a zipmap of Len(zm) bytes
\* has fewer than Len(zm) entries, so Len(zm) passes reach the end byte
RECURSIVE LookupLoop(_, _, _, _)
LookupLoop(zm, key, s, n) ==
    IF n = 0 \/ At(zm, s.p) = ZIPMAP_END THEN s
    ELSE IF n = 1 THEN LookupStep(zm, key, s)
    ELSE LookupLoop(zm, key, LookupLoop(zm, key, s, n \div 2), n - (n \div 2))

LookupEnd(s) == [k |-> s.k, totlen |-> s.p + 1]

zipmapLookupRaw(zm, key) ==
    LookupEnd(LookupLoop(zm, key, [p |-> 1, k |-> NoPtr], Len(zm)))

\* one pass of the loop when totlen is NULL: the first match is returned at
\* once
FirstStep(zm, key, s) ==
    IF At(zm, s.p) = ZIPMAP_END \/ s.k # NoPtr THEN s
    ELSE IF KeyAt(zm, s.p, key) THEN [p |-> s.p, k |-> s.p]
    ELSE [p |-> SkipEntry(zm, s.p), k |-> NoPtr]

RECURSIVE LookupFirst(_, _, _, _)
LookupFirst(zm, key, s, n) ==
    IF n = 0 \/ At(zm, s.p) = ZIPMAP_END \/ s.k # NoPtr THEN s
    ELSE IF n = 1 THEN FirstStep(zm, key, s)
    ELSE LookupFirst(zm, key, LookupFirst(zm, key, s, n \div 2),
                     n - (n \div 2))

zipmapLookup(zm, key) ==
    LookupFirst(zm, key, [p |-> 1, k |-> NoPtr], Len(zm)).k

\* a faulty variant: every length is taken to fit one byte
zipmapRequiredLengthShort(klen, vlen) == klen + vlen + 3

zipmapRequiredLength(klen, vlen) ==
    klen + vlen + 3 + (IF klen >= ZIPMAP_BIGLEN THEN 4 ELSE 0)
    + (IF vlen >= ZIPMAP_BIGLEN THEN 4 ELSE 0)

\* zrealloc to len bytes, then zm[len-1] = ZIPMAP_END
zipmapResize(zm, len) ==
    [i \in 1..len |-> IF i = len THEN ZIPMAP_END
                      ELSE IF i \in DOMAIN zm THEN zm[i] ELSE Uninit]

\* memmove(zm + dst, zm + src, n)
MemMove(zm, dst, src, n) ==
    [i \in 1..Len(zm) |-> IF i - 1 >= dst /\ i - 1 < dst + n
                          THEN zm[i - dst + src] ELSE zm[i]]

\* the bytes written at zm + p
WriteAt(zm, p, bytes) ==
    [i \in 1..Len(zm) |-> IF i - 1 >= p /\ i - 1 < p + Len(bytes)
                          THEN bytes[i - p] ELSE zm[i]]

\* the entry zipmapSet writes at p
EntryBytes(key, val, vempty) ==
    zipmapEncodeLength(Len(key)) \o key
    \o zipmapEncodeLength(Len(val)) \o <<vempty>> \o val

\* a faulty variant: zm[0]++ whatever zm[0] is
CountUpAlways(zm) == [zm EXCEPT ![1] = (zm[1] + 1) % 256]

\* zm[0]++ and zm[0]-- below ZIPMAP_BIGLEN
CountUp(zm) ==
    IF zm[1] < ZIPMAP_BIGLEN THEN [zm EXCEPT ![1] = zm[1] + 1] ELSE zm
CountDown(zm) ==
    IF zm[1] < ZIPMAP_BIGLEN THEN [zm EXCEPT ![1] = (zm[1] + 255) % 256]
    ELSE zm

\* the block of zipmapSet for the entry: zm, its length, p and freelen
SetBlock(zm, key, reqlen, look) ==
    IF look.k = NoPtr
    THEN [zm |-> CountUp(zipmapResize(zm, look.totlen + reqlen)),
          zmlen |-> look.totlen + reqlen, p |-> look.totlen - 1,
          freelen |-> reqlen, update |-> 0]
    ELSE IF zipmapRawEntryLength(zm, look.k) < reqlen
    THEN [zm |-> MemMove(zipmapResize(zm, look.totlen
                             - zipmapRawEntryLength(zm, look.k) + reqlen),
                         look.k + reqlen,
                         look.k + zipmapRawEntryLength(zm, look.k),
                         look.totlen - (look.k
                             + zipmapRawEntryLength(zm, look.k) + 1)),
          zmlen |-> look.totlen - zipmapRawEntryLength(zm, look.k) + reqlen,
          p |-> look.k, freelen |-> reqlen, update |-> 1]
    ELSE [zm |-> zm, zmlen |-> look.totlen, p |-> look.k,
          freelen |-> zipmapRawEntryLength(zm, look.k), update |-> 1]

\* a faulty variant: a block is never shrunk
SetShrinkNever(b, reqlen) ==
    [zm |-> b.zm, p |-> b.p, vempty |-> b.freelen - reqlen,
     update |-> b.update]

\* a faulty variant: a block is shrunk only when it has more than
\* ZIPMAP_VALUE_MAX_FREE + 1 free bytes
SetShrinkLate(b, reqlen) ==
    IF b.freelen - reqlen > ZIPMAP_VALUE_MAX_FREE + 1
    THEN [zm |-> zipmapResize(MemMove(b.zm, b.p + reqlen, b.p + b.freelen,
                                      b.zmlen - (b.p + b.freelen + 1)),
                              b.zmlen - (b.freelen - reqlen)),
          p |-> b.p, vempty |-> 0, update |-> b.update]
    ELSE [zm |-> b.zm, p |-> b.p, vempty |-> b.freelen - reqlen,
          update |-> b.update]

\* the shrinking of a block with ZIPMAP_VALUE_MAX_FREE free bytes or more
SetShrink(b, reqlen) ==
    IF b.freelen - reqlen >= ZIPMAP_VALUE_MAX_FREE
    THEN [zm |-> zipmapResize(MemMove(b.zm, b.p + reqlen, b.p + b.freelen,
                                      b.zmlen - (b.p + b.freelen + 1)),
                              b.zmlen - (b.freelen - reqlen)),
          p |-> b.p, vempty |-> 0, update |-> b.update]
    ELSE [zm |-> b.zm, p |-> b.p, vempty |-> b.freelen - reqlen,
          update |-> b.update]

SetWrite(s, key, val) ==
    [zm |-> WriteAt(s.zm, s.p, EntryBytes(key, val, s.vempty)),
     update |-> s.update]

zipmapSet(zm, key, val) ==
    SetWrite(SetShrink(SetBlock(zm, key,
                                zipmapRequiredLength(Len(key), Len(val)),
                                zipmapLookupRaw(zm, key)),
                       zipmapRequiredLength(Len(key), Len(val))),
             key, val)

DelFound(zm, p, zmlen, freelen) ==
    [zm |-> CountDown(zipmapResize(
                MemMove(zm, p, p + freelen, zmlen - (p + freelen + 1)),
                zmlen - freelen)),
     deleted |-> 1]

\* a faulty variant: the free bytes of the entry are left in the zipmap
DelEntryKeepFree(zm, look) ==
    IF look.k # NoPtr
    THEN DelFound(zm, look.k, look.totlen,
                  zipmapRawEntryLength(zm, look.k) - FreeAt(zm, look.k))
    ELSE [zm |-> zm, deleted |-> 0]

DelEntry(zm, look) ==
    IF look.k # NoPtr
    THEN DelFound(zm, look.k, look.totlen, zipmapRawEntryLength(zm, look.k))
    ELSE [zm |-> zm, deleted |-> 0]

zipmapDel(zm, key) == DelEntry(zm, zipmapLookupRaw(zm, key))

\* a faulty variant: the free byte is taken for the first byte of the value
GetValueAtFree(zm, p) ==
    [ret |-> 1, vlen |-> zipmapDecodeLength(zm, p),
     value |-> [i \in 1..zipmapDecodeLength(zm, p) |->
                  At(zm, p + ZIPMAP_LEN_BYTES(zipmapDecodeLength(zm, p))
                         + i - 1)]]

\* the value of the entry at p: its length and its bytes
GetValue(zm, p) ==
    [ret |-> 1, vlen |-> zipmapDecodeLength(zm, p),
     value |-> [i \in 1..zipmapDecodeLength(zm, p) |->
                  At(zm, p + ZIPMAP_LEN_BYTES(zipmapDecodeLength(zm, p)) + 1
                         + i - 1)]]

GetEntry(zm, p) ==
    IF p = NoPtr THEN [ret |-> 0, vlen |-> 0, value |-> <<>>]
    ELSE GetValue(zm, p + zipmapRawKeyLength(zm, p))

zipmapGet(zm, key) == GetEntry(zm, zipmapLookup(zm, key))

zipmapExists(zm, key) == IF zipmapLookup(zm, key) # NoPtr THEN 1 ELSE 0

\* a faulty variant: every call returns NULL
zipmapNextEnd(zm, p) == NoPtr

\* zipmapNext without the out parameters: NoPtr at the end byte
zipmapNext(zm, p) ==
    IF At(zm, p) = ZIPMAP_END THEN NoPtr
    ELSE p + zipmapRawKeyLength(zm, p)
           + zipmapRawValueLength(zm, p + zipmapRawKeyLength(zm, p))

zipmapRewind(zm) == 1

\* one pass of while ((p = zipmapNext(p)) != NULL) len++
CountStep(zm, s) ==
    IF zipmapNext(zm, s.p) = NoPtr THEN s
    ELSE [p |-> zipmapNext(zm, s.p), len |-> s.len + 1]

\* n passes from s, as two halves
RECURSIVE CountLoop(_, _, _)
CountLoop(zm, s, n) ==
    IF n = 0 \/ At(zm, s.p) = ZIPMAP_END THEN s
    ELSE IF n = 1 THEN CountStep(zm, s)
    ELSE CountLoop(zm, CountLoop(zm, s, n \div 2), n - (n \div 2))

LenCounted(zm, len) ==
    [zm |-> IF len < ZIPMAP_BIGLEN THEN [zm EXCEPT ![1] = len] ELSE zm,
     len |-> len]

zipmapLen(zm) ==
    IF zm[1] < ZIPMAP_BIGLEN THEN [zm |-> zm, len |-> zm[1]]
    ELSE LenCounted(zm, CountLoop(zm, [p |-> zipmapRewind(zm), len |-> 0],
                                  Len(zm)).len)

zipmapBlobLen(zm) == zipmapLookupRaw(zm, <<>>).totlen

\* The short keys and values of the callers; the values have the bytes 254
\* and 255 in them.
ZKeys == {<<97>>, <<97, 98>>, <<98>>}
ZVals == {<<>>, <<255, 254>>, <<1, 2, 3, 4, 5, 6, 7, 8>>,
          <<9, 9, 9, 9, 9, 9, 9, 9, 9, 9>>}
\* Two keys and values whose lengths differ by every number from 1 to 10, for
\* the free bytes an update leaves.
ZSlackKeys == {<<97>>, <<97, 98>>}
ZSlackVals == ZVals \cup {<<0>>, <<5, 5, 5, 5, 5>>}
\* a key and a value whose lengths take five bytes
LongLen == ZIPMAP_BIGLEN
LongKey == [i \in 1..LongLen |-> 97]
LongVal == [i \in 1..LongLen |-> 255]
\* "foo", "bar", "hello", "world"
Foo == <<102, 111, 111>>
Bar == <<98, 97, 114>>
Hello == <<104, 101, 108, 108, 111>>
World == <<119, 111, 114, 108, 100>>
\* the keys, and the pairs set, with lengths of one byte and of five
ZLongKeys == {Foo, Hello, LongKey}
ZLongSets == {<<Foo, Bar>>, <<Hello, World>>, <<Foo, LongVal>>,
              <<LongKey, Bar>>, <<LongKey, LongVal>>}
\* the keys that fill a zipmap beyond ZIPMAP_BIGLEN entries, one byte each
NLenKeys == ZIPMAP_BIGLEN + 1
ZLenKeys == {<<b>> : b \in 0..(NLenKeys - 1)}

\* ------------------------------------------------------------------ adlist
AL_START_HEAD == 0
AL_START_TAIL == 1

\* the nodes zmalloc can give, by address
NodeAddrs == 1..NNodes
ListVals == 1..NListVals
\* the value dup returns for v: another pointer
DupOf(v) == v + NListVals

\* the two lists of the callers, and the list listDup returns
ListL == 1
ListO == 2
ListCopy == 3

NoNode == [prev |-> NULL, next |-> NULL, value |-> NULL, alloc |-> FALSE]
\* listCreate; dup and free are the methods set by listSetDupMethod and
\* listSetFreeMethod (TRUE when set)
listCreate(dup, free) ==
    [head |-> NULL, tail |-> NULL, len |-> 0, dup |-> dup, free |-> free,
     alloc |-> TRUE]
NoList == [head |-> NULL, tail |-> NULL, len |-> 0, dup |-> FALSE,
           free |-> FALSE, alloc |-> FALSE]

\* zmalloc(sizeof(listNode)): the lowest free address, NULL when ok is FALSE
\* (zmalloc fails) or no address is free
FreeAddrs(st) == {a \in NodeAddrs : ~st.node[a].alloc}
Lowest(S) == CHOOSE a \in S : \A b \in S : a <= b
zmallocNode(st, ok) ==
    IF ok /\ FreeAddrs(st) # {} THEN Lowest(FreeAddrs(st)) ELSE NULL

ListRes(st, ret) == [st |-> st, ret |-> ret]

\* node->f = x and list->f = x
SetPrev(st, n, x) == [st EXCEPT !.node[n].prev = x]
SetNext(st, n, x) == [st EXCEPT !.node[n].next = x]
SetHead(st, l, x) == [st EXCEPT !.list[l].head = x]
SetTail(st, l, x) == [st EXCEPT !.list[l].tail = x]
SetLen(st, l, x) == [st EXCEPT !.list[l].len = x]
NewNode(st, n, prev, next, value) ==
    [st EXCEPT !.node[n] = [prev |-> prev, next |-> next, value |-> value,
                            alloc |-> TRUE]]

\* list->len++ and list->len-- on an unsigned long
LenUp(st, l) == SetLen(st, l, Inc(st.list[l].len))
LenDown(st, l) == SetLen(st, l, Dec(st.list[l].len))

AddHeadLink(st, l, node, value) ==
    IF st.list[l].len = 0
    THEN SetTail(SetHead(NewNode(st, node, NULL, NULL, value), l, node),
                 l, node)
    ELSE SetHead(SetPrev(NewNode(st, node, NULL, st.list[l].head, value),
                         st.list[l].head, node),
                 l, node)

AddHeadAt(st, l, node, value) ==
    IF node = NULL THEN ListRes(st, NULL)
    ELSE ListRes(LenUp(AddHeadLink(st, l, node, value), l), l)

listAddNodeHead(st, l, value, ok) ==
    AddHeadAt(st, l, zmallocNode(st, ok), value)

AddTailLink(st, l, node, value) ==
    IF st.list[l].len = 0
    THEN SetTail(SetHead(NewNode(st, node, NULL, NULL, value), l, node),
                 l, node)
    ELSE SetTail(SetNext(NewNode(st, node, st.list[l].tail, NULL, value),
                         st.list[l].tail, node),
                 l, node)

AddTailAt(st, l, node, value) ==
    IF node = NULL THEN ListRes(st, NULL)
    ELSE ListRes(LenUp(AddTailLink(st, l, node, value), l), l)

listAddNodeTail(st, l, value, ok) ==
    AddTailAt(st, l, zmallocNode(st, ok), value)

\* the new node with its links, and list->tail or list->head moved to it
InsertNew(st, l, old_node, node, value, after) ==
    IF after # 0
    THEN IF st.list[l].tail = old_node
         THEN SetTail(NewNode(st, node, old_node, st.node[old_node].next,
                              value), l, node)
         ELSE NewNode(st, node, old_node, st.node[old_node].next, value)
    ELSE IF st.list[l].head = old_node
         THEN SetHead(NewNode(st, node, st.node[old_node].prev, old_node,
                              value), l, node)
         ELSE NewNode(st, node, st.node[old_node].prev, old_node, value)

\* if (node->prev != NULL) node->prev->next = node
LinkPrev(st, node) ==
    IF st.node[node].prev # NULL THEN SetNext(st, st.node[node].prev, node)
    ELSE st
\* a faulty variant: the node after the new one keeps its prev
LinkNextNone(st, node) == st

\* if (node->next != NULL) node->next->prev = node
LinkNext(st, node) ==
    IF st.node[node].next # NULL THEN SetPrev(st, st.node[node].next, node)
    ELSE st

InsertAt(st, l, old_node, node, value, after) ==
    IF node = NULL THEN ListRes(st, NULL)
    ELSE ListRes(LenUp(LinkNext(LinkPrev(
                     InsertNew(st, l, old_node, node, value, after), node),
                     node), l), l)

listInsertNode(st, l, old_node, value, after, ok) ==
    InsertAt(st, l, old_node, zmallocNode(st, ok), value, after)

\* list->free(value) when the method is set
FreeValue(st, l, value) ==
    IF st.list[l].free THEN [st EXCEPT !.freed = @ \cup {value}] ELSE st
\* zfree(node): what the freed memory holds is not kept, a read of it is
\* reported by the reader
zfreeNode(st, node) == [st EXCEPT !.node[node] = NoNode]

DelUnlinkPrev(st, l, node) ==
    IF st.node[node].prev # NULL
    THEN SetNext(st, st.node[node].prev, st.node[node].next)
    ELSE SetHead(st, l, st.node[node].next)
DelUnlinkNext(st, l, node) ==
    IF st.node[node].next # NULL
    THEN SetPrev(st, st.node[node].next, st.node[node].prev)
    ELSE SetTail(st, l, st.node[node].prev)

listDelNode(st, l, node) ==
    LenDown(zfreeNode(FreeValue(DelUnlinkNext(DelUnlinkPrev(st, l, node),
                                              l, node),
                                l, st.node[node].value), node), l)

\* the loop of listEmpty: len nodes from current are freed
RECURSIVE EmptyLoop(_, _, _, _)
EmptyLoop(st, l, current, len) ==
    IF len = 0 THEN st
    ELSE EmptyLoop(zfreeNode(FreeValue(st, l, st.node[current].value),
                             current),
                   l, st.node[current].next, len - 1)

listEmpty(st, l) ==
    SetLen(SetTail(SetHead(EmptyLoop(st, l, st.list[l].head, st.list[l].len),
                           l, NULL), l, NULL), l, 0)

\* listEmpty, then zfree(list)
listRelease(st, l) == [listEmpty(st, l) EXCEPT !.list[l].alloc = FALSE]

NoListIter == [next |-> NULL, direction |-> -1]

listGetIterator(st, l, direction) ==
    [next |-> IF direction = AL_START_HEAD THEN st.list[l].head
              ELSE st.list[l].tail,
     direction |-> direction]

\* a faulty variant: the node is returned and the iterator is left on it
listNextStay(st, it) ==
    [it |-> it, ret |-> it.next,
     readFreed |-> it.next # NULL /\ ~st.node[it.next].alloc]

\* listNext: the iterator afterwards, the node returned, and whether a field
\* of a node that is not allocated was read
listNext(st, it) ==
    IF it.next # NULL
    THEN [it |-> [it EXCEPT !.next =
                     IF it.direction = AL_START_HEAD
                     THEN st.node[it.next].next ELSE st.node[it.next].prev],
          ret |-> it.next, readFreed |-> ~st.node[it.next].alloc]
    ELSE [it |-> it, ret |-> NULL, readFreed |-> FALSE]

\* The allocations and dup calls of listDup are counted down by fail: the one
\* that finds fail = 1 returns NULL, none does when fail = 0.
Tick(fail) == IF fail = 0 THEN 0 ELSE fail - 1

RECURSIVE DupLoop(_, _, _)
\* listAddNodeTail(copy, value) and the rest of the loop
DupAdd(st, node, r, fail) ==
    IF r.ret = NULL THEN ListRes(listRelease(r.st, ListCopy), NULL)
    ELSE DupLoop(r.st, st.node[node].next, Tick(fail))

DupLoop(st, node, fail) ==
    IF node = NULL THEN ListRes(st, ListCopy)
    ELSE IF st.list[ListCopy].dup
    THEN IF fail = 1 THEN ListRes(listRelease(st, ListCopy), NULL)
         ELSE DupAdd(st, node,
                     listAddNodeTail(st, ListCopy, DupOf(st.node[node].value),
                                     Tick(fail) # 1),
                     Tick(fail))
    ELSE DupAdd(st, node,
                listAddNodeTail(st, ListCopy, st.node[node].value, fail # 1),
                fail)

listDup(st, orig, fail) ==
    IF fail = 1 THEN ListRes(st, NULL)
    ELSE DupLoop([st EXCEPT !.list[ListCopy] =
                     listCreate(st.list[orig].dup, st.list[orig].free)],
                 st.list[orig].head, Tick(fail))

\* the tail detached, then moved in front of the head
RotateDetach(st, l, tail) ==
    SetNext(SetTail(st, l, st.node[tail].prev), st.node[tail].prev, NULL)
RotateFront(st, l, tail) ==
    SetHead(SetNext(SetPrev(SetPrev(st, st.list[l].head, tail), tail, NULL),
                    tail, st.list[l].head),
            l, tail)

\* a faulty variant: the head is moved behind the tail
listRotateForward(st, l) ==
    IF st.list[l].len <= 1 THEN st
    ELSE SetTail(SetPrev(SetNext(SetNext(
             SetPrev(SetHead(st, l, st.node[st.list[l].head].next),
                     st.node[st.list[l].head].next, NULL),
             st.list[l].tail, st.list[l].head),
             st.list[l].head, NULL),
             st.list[l].head, st.list[l].tail),
             l, st.list[l].head)

listRotate(st, l) ==
    IF st.list[l].len <= 1 THEN st
    ELSE RotateFront(RotateDetach(st, l, st.list[l].tail), l, st.list[l].tail)

JoinHead(st, l, o) ==
    IF st.list[o].head # NULL
    THEN SetPrev(st, st.list[o].head, st.list[l].tail) ELSE st
JoinTail(st, l, o) ==
    IF st.list[l].tail # NULL
    THEN SetNext(st, st.list[l].tail, st.list[o].head)
    ELSE SetHead(st, l, st.list[o].head)
\* a faulty variant: l->tail = o->tail also when o is empty
JoinEndAlways(st, l, o) == SetTail(st, l, st.list[o].tail)
JoinEnd(st, l, o) ==
    IF st.list[o].tail # NULL THEN SetTail(st, l, st.list[o].tail) ELSE st
\* l->len += o->len on unsigned longs
JoinLen(st, l, o) ==
    SetLen(st, l, IF st.list[l].len > ULONG_MAX - st.list[o].len
                  THEN st.list[l].len - (ULONG_MAX - st.list[o].len) - 1
                  ELSE st.list[l].len + st.list[o].len)

listJoin(st, l, o) ==
    SetLen(SetTail(SetHead(JoinLen(JoinEnd(JoinTail(JoinHead(st, l, o), l, o),
                                           l, o), l, o),
                           o, NULL), o, NULL), o, 0)

\* ---------------------------------------------------------------------- sds
\* An sds string is its header and its buffer: the header variant (type), the
\* len and alloc fields (alloc reads 0 for SDS_TYPE_5, which has none), the
\* bytes of the buffer written so far (buf, byte i of the string at i + 1) and
\* the number of bytes allocated for the buffer (size). A byte of the buffer
\* that was never written reads Uninit. The lengths of the model stay below
\* 2^31, so that the 32 and 64 bit fields never wrap and sdsReqType never
\* answers SDS_TYPE_64.
SDS_MAX_PREALLOC == 1048576
SDS_TYPE_5 == 0
SDS_TYPE_8 == 1
SDS_TYPE_16 == 2
SDS_TYPE_32 == 3
SDS_TYPE_64 == 4
SDS_TYPE_BITS == 3

\* the NULL sds
NoSds == [type |-> -1, len |-> 0, alloc |-> 0, buf |-> <<>>, size |-> 0]

sdsHdrSize(type) ==
    CASE type = SDS_TYPE_5 -> 1
      [] type = SDS_TYPE_8 -> 3
      [] type = SDS_TYPE_16 -> 5
      [] type = SDS_TYPE_32 -> 9
      [] OTHER -> 17

\* a faulty variant: SDS_TYPE_8 for every size below 1 << 16
sdsReqTypeWide(string_size) ==
    IF string_size < 32 THEN SDS_TYPE_5
    ELSE IF string_size < 65536 THEN SDS_TYPE_8
    ELSE SDS_TYPE_32

sdsReqType(string_size) ==
    IF string_size < 32 THEN SDS_TYPE_5
    ELSE IF string_size < 256 THEN SDS_TYPE_8
    ELSE IF string_size < 65536 THEN SDS_TYPE_16
    ELSE SDS_TYPE_32

\* a value stored in the len or alloc field of the header variant
SdsField(type, n) ==
    CASE type = SDS_TYPE_5 -> n % 32
      [] type = SDS_TYPE_8 -> n % 256
      [] type = SDS_TYPE_16 -> n % 65536
      [] OTHER -> n

sdslen(s) == s.len
sdsavail(s) == IF s.type = SDS_TYPE_5 THEN 0 ELSE s.alloc - s.len
sdsalloc(s) == IF s.type = SDS_TYPE_5 THEN s.len ELSE s.alloc
sdssetlen(s, newlen) == [s EXCEPT !.len = SdsField(s.type, newlen)]
sdssetalloc(s, newlen) ==
    IF s.type = SDS_TYPE_5 THEN s
    ELSE [s EXCEPT !.alloc = SdsField(s.type, newlen)]

\* the payload: the first len bytes of the buffer
SdsBytes(s) == SubSeq(s.buf, 1, s.len)

\* if (type == SDS_TYPE_5 && initlen == 0) type = SDS_TYPE_8
NewType(initlen) ==
    IF initlen = 0 THEN SDS_TYPE_8 ELSE sdsReqType(initlen)

\* sdsnewlen(init, initlen), ok: s_malloc succeeds
sdsnewlen(init, initlen, ok) ==
    IF ~ok THEN NoSds
    ELSE [type |-> NewType(initlen),
          len |-> SdsField(NewType(initlen), initlen),
          alloc |-> IF NewType(initlen) = SDS_TYPE_5 THEN 0
                    ELSE SdsField(NewType(initlen), initlen),
          buf |-> SubSeq(init, 1, initlen) \o <<0>>,
          size |-> initlen + 1]

sdsempty(ok) == sdsnewlen(<<>>, 0, ok)

\* memcpy(buf + pos, bytes, Len(bytes))
BufWrite(buf, pos, bytes) ==
    [i \in 1..(IF Len(buf) > pos + Len(bytes) THEN Len(buf)
                ELSE pos + Len(bytes)) |->
        IF i > pos /\ i <= pos + Len(bytes) THEN bytes[i - pos]
        ELSE IF i <= Len(buf) THEN buf[i] ELSE Uninit]

\* a faulty variant: the capacity is doubled whatever the length
MakeRoomNewlenDouble(len, addlen) == (len + addlen) * 2

\* newlen = len + addlen, doubled below SDS_MAX_PREALLOC
MakeRoomNewlen(len, addlen) ==
    IF len + addlen < SDS_MAX_PREALLOC THEN (len + addlen) * 2
    ELSE len + addlen + SDS_MAX_PREALLOC

\* if (type == SDS_TYPE_5) type = SDS_TYPE_8
MakeRoomType(newlen) ==
    IF sdsReqType(newlen) = SDS_TYPE_5 THEN SDS_TYPE_8
    ELSE sdsReqType(newlen)

\* s_realloc when the header variant stays, else s_malloc, memcpy of the
\* payload and its terminator, s_free
MakeRoomGrow(s, len, newlen, type) ==
    IF s.type = type
    THEN sdssetalloc([s EXCEPT !.size = newlen + 1], newlen)
    ELSE sdssetalloc(sdssetlen([type |-> type, len |-> 0, alloc |-> 0,
                                buf |-> SubSeq(s.buf, 1, len + 1),
                                size |-> newlen + 1], len), newlen)

\* sdsMakeRoomFor(s, addlen), ok: the allocation succeeds
sdsMakeRoomFor(s, addlen, ok) ==
    IF sdsavail(s) >= addlen THEN s
    ELSE IF ~ok THEN NoSds
    ELSE MakeRoomGrow(s, sdslen(s), MakeRoomNewlen(sdslen(s), addlen),
                      MakeRoomType(MakeRoomNewlen(sdslen(s), addlen)))

\* the assertion of sdsIncrLen
IncrLenOk(s, incr) ==
    IF s.type = SDS_TYPE_5
    THEN \/ incr > 0 /\ s.len + incr < 32
         \/ incr < 0 /\ s.len >= -incr
    ELSE \/ incr >= 0 /\ s.alloc - s.len >= incr
         \/ incr < 0 /\ s.len >= -incr

\* sdsIncrLen(s, incr): the string afterwards, whether assert aborted, and
\* whether s[len] = 0 was written outside the bytes allocated for the buffer
sdsIncrLen(s, incr) ==
    IF ~IncrLenOk(s, incr) THEN [s |-> s, aborted |-> TRUE, oob |-> FALSE]
    ELSE [s |-> [sdssetlen(s, s.len + incr) EXCEPT
                    !.buf = BufWrite(@, SdsField(s.type, s.len + incr), <<0>>)],
          aborted |-> FALSE,
          oob |-> SdsField(s.type, s.len + incr) >= s.size]

\* a faulty variant: the bytes are copied, the terminator is not written
CatAtNoNul(s, curlen, t, len) ==
    IF s = NoSds THEN NoSds
    ELSE sdssetlen([s EXCEPT !.buf = BufWrite(@, curlen, SubSeq(t, 1, len))],
                   curlen + len)

\* memcpy(s + curlen, t, len); sdssetlen(s, curlen + len); s[curlen + len] = 0
CatAt(s, curlen, t, len) ==
    IF s = NoSds THEN NoSds
    ELSE sdssetlen([s EXCEPT !.buf = BufWrite(
                                BufWrite(@, curlen, SubSeq(t, 1, len)),
                                curlen + len, <<0>>)],
                   curlen + len)

sdscatlen(s, t, len, ok) ==
    CatAt(sdsMakeRoomFor(s, len, ok), sdslen(s), t, len)

sdscatsds(s, t, ok) == sdscatlen(s, SdsBytes(t), sdslen(t), ok)

\* sdsjoinsds with every allocation succeeding, from argv[j] on
RECURSIVE JoinLoop(_, _, _, _, _, _)
JoinLoop(join, argv, argc, sep, seplen, j) ==
    IF j >= argc THEN join
    ELSE JoinLoop(IF j # argc - 1
                  THEN sdscatlen(sdscatsds(join, argv[j + 1], TRUE),
                                 sep, seplen, TRUE)
                  ELSE sdscatsds(join, argv[j + 1], TRUE),
                  argv, argc, sep, seplen, j + 1)

sdsjoinsds(argv, argc, sep, seplen) ==
    JoinLoop(sdsempty(TRUE), argv, argc, sep, seplen, 0)

\* a faulty variant: only the first byte of the separator is compared
SepAtFirst(s, j, sep, seplen) == s[j + 1] = sep[1]

\* (seplen == 1 && *(s+j) == sep[0]) || (memcmp(s+j,sep,seplen) == 0)
SepAt(s, j, sep, seplen) ==
    \/ seplen = 1 /\ s[j + 1] = sep[1]
    \/ SubSeq(s, j + 1, j + seplen) = SubSeq(sep, 1, seplen)

\* the loop of sdssplitlen from j on and the final element, with every
\* allocation succeeding
RECURSIVE SplitLoop(_, _, _, _, _, _, _)
SplitLoop(s, len, sep, seplen, j, start, tokens) ==
    IF j >= len - (seplen - 1)
    THEN Append(tokens, sdsnewlen(SubSeq(s, start + 1, len), len - start, TRUE))
    ELSE IF SepAt(s, j, sep, seplen)
    THEN SplitLoop(s, len, sep, seplen, j + seplen, j + seplen,
                   Append(tokens, sdsnewlen(SubSeq(s, start + 1, j),
                                            j - start, TRUE)))
    ELSE SplitLoop(s, len, sep, seplen, j + 1, start, tokens)

\* sdssplitlen(s, len, sep, seplen, &count): whether NULL is returned, the
\* tokens, and *count, which holds count before the call
sdssplitlen(s, len, sep, seplen, count) ==
    IF seplen < 1 \/ len < 0
    THEN [null |-> TRUE, tokens |-> <<>>, count |-> count]
    ELSE IF len = 0 THEN [null |-> FALSE, tokens |-> <<>>, count |-> 0]
    ELSE [null |-> FALSE,
          tokens |-> SplitLoop(s, len, sep, seplen, 0, 0, <<>>),
          count |-> Len(SplitLoop(s, len, sep, seplen, 0, 0, <<>>))]

\* the C string at the start of the bytes: up to the first 0 byte
RECURSIVE StrLenFrom(_, _)
StrLenFrom(t, n) ==
    IF n >= Len(t) \/ t[n + 1] = 0 THEN n ELSE StrLenFrom(t, n + 1)
strlen(t) == StrLenFrom(t, 0)

\* the result of a call on the NULL sds: sdslen(s) reads s[-1]
SegvSds == [type |-> -2, len |-> 0, alloc |-> 0, buf |-> <<>>, size |-> 0]

\* sdscatlen on what the call before returned
CatNext(s, t, len, ok) ==
    IF s = NoSds \/ s = SegvSds THEN SegvSds ELSE sdscatlen(s, t, len, ok)

\* sdscat(s, t) = sdscatlen(s, t, strlen(t))
sdscat(s, t, ok) == CatNext(s, t, strlen(t), ok)

\* isprint, isspace in the C locale; isprint of a char that is negative
\* (a byte from 128 on) answers hiprint
isprint(c, hiprint) == IF c >= 128 THEN hiprint ELSE c >= 32 /\ c <= 126
isspace(c) == c = 32 \/ (c >= 9 /\ c <= 13)

\* the digit vsnprintf writes for %x
HexChar(n) == IF n < 10 THEN 48 + n ELSE 87 + n

\* the bytes sdscatrepr appends for the byte c, through sdscatlen or through
\* sdscatprintf, whose buffer is appended as a C string
ReprOf(c, hiprint) ==
    CASE c = 92 \/ c = 34 -> <<92, c>>
      [] c = 10 -> <<92, 110>>
      [] c = 13 -> <<92, 114>>
      [] c = 9 -> <<92, 116>>
      [] c = 7 -> <<92, 97>>
      [] c = 8 -> <<92, 98>>
      [] OTHER -> IF isprint(c, hiprint) THEN <<c>>
                  ELSE <<92, 120, HexChar(c \div 16), HexChar(c % 16)>>

\* The appends of sdscatrepr are counted down by fail: the one that finds
\* fail = 1 has its allocation fail if it needs one, none when fail = 0.
RECURSIVE ReprLoop(_, _, _, _, _, _)
ReprLoop(s, p, len, j, hiprint, fail) ==
    IF j >= len THEN CatNext(s, <<34>>, 1, fail # 1)
    ELSE ReprLoop(sdscat(s, ReprOf(p[j + 1], hiprint), fail # 1),
                  p, len, j + 1, hiprint, Tick(fail))

sdscatrepr(s, p, len, hiprint, fail) ==
    ReprLoop(CatNext(s, <<34>>, 1, fail # 1), p, len, 0, hiprint, Tick(fail))

is_hex_digit(c) ==
    (c >= 48 /\ c <= 57) \/ (c >= 97 /\ c <= 102) \/ (c >= 65 /\ c <= 70)

hex_digit_to_int(c) ==
    IF c >= 48 /\ c <= 57 THEN c - 48
    ELSE IF c >= 97 /\ c <= 102 THEN c - 87
    ELSE IF c >= 65 /\ c <= 70 THEN c - 55
    ELSE 0

\* *(line + p) of a C string: 0 from its end on
CharAt(line, p) == IF p < strlen(line) THEN line[p + 1] ELSE 0

\* if (*p) p++
StepOver(line, p) == IF CharAt(line, p) # 0 THEN p + 1 ELSE p

\* a faulty variant: the character after the backslash is taken as it is
UnescapeNone(c) == c

\* the byte of an escape after a backslash in double quotes
Unescape(c) ==
    CASE c = 110 -> 10
      [] c = 114 -> 13
      [] c = 116 -> 9
      [] c = 98 -> 8
      [] c = 97 -> 7
      [] OTHER -> c

ArgByte(current, c) == CatNext(current, <<c>>, 1, TRUE)

\* the while(!done) loop of sdssplitargs, the appends to current succeeding:
\* whether it left by goto err, p and current after it
RECURSIVE TokenLoop(_, _, _, _, _)
TokenLoop(line, p, inq, insq, current) ==
    IF inq
    THEN IF /\ CharAt(line, p) = 92 /\ CharAt(line, p + 1) = 120
            /\ is_hex_digit(CharAt(line, p + 2))
            /\ is_hex_digit(CharAt(line, p + 3))
         THEN TokenLoop(line, StepOver(line, p + 3), inq, insq,
                        ArgByte(current,
                                hex_digit_to_int(CharAt(line, p + 2)) * 16
                                + hex_digit_to_int(CharAt(line, p + 3))))
         ELSE IF CharAt(line, p) = 92 /\ CharAt(line, p + 1) # 0
         THEN TokenLoop(line, StepOver(line, p + 1), inq, insq,
                        ArgByte(current, Unescape(CharAt(line, p + 1))))
         ELSE IF CharAt(line, p) = 34
         THEN IF CharAt(line, p + 1) # 0 /\ ~isspace(CharAt(line, p + 1))
              THEN [err |-> TRUE, p |-> p, current |-> current]
              ELSE [err |-> FALSE, p |-> StepOver(line, p),
                    current |-> current]
         ELSE IF CharAt(line, p) = 0
         THEN [err |-> TRUE, p |-> p, current |-> current]
         ELSE TokenLoop(line, StepOver(line, p), inq, insq,
                        ArgByte(current, CharAt(line, p)))
    ELSE IF insq
    THEN IF CharAt(line, p) = 92 /\ CharAt(line, p + 1) = 39
         THEN TokenLoop(line, StepOver(line, p + 1), inq, insq,
                        ArgByte(current, 39))
         ELSE IF CharAt(line, p) = 39
         THEN IF CharAt(line, p + 1) # 0 /\ ~isspace(CharAt(line, p + 1))
              THEN [err |-> TRUE, p |-> p, current |-> current]
              ELSE [err |-> FALSE, p |-> StepOver(line, p),
                    current |-> current]
         ELSE IF CharAt(line, p) = 0
         THEN [err |-> TRUE, p |-> p, current |-> current]
         ELSE TokenLoop(line, StepOver(line, p), inq, insq,
                        ArgByte(current, CharAt(line, p)))
    ELSE IF CharAt(line, p) \in {32, 10, 13, 9, 0}
         THEN [err |-> FALSE, p |-> StepOver(line, p), current |-> current]
         ELSE IF CharAt(line, p) = 34
         THEN TokenLoop(line, StepOver(line, p), TRUE, insq, current)
         ELSE IF CharAt(line, p) = 39
         THEN TokenLoop(line, StepOver(line, p), inq, TRUE, current)
         ELSE TokenLoop(line, StepOver(line, p), inq, insq,
                        ArgByte(current, CharAt(line, p)))

\* while(*p && isspace(*p)) p++
RECURSIVE SkipBlanks(_, _)
SkipBlanks(line, p) ==
    IF CharAt(line, p) # 0 /\ isspace(CharAt(line, p))
    THEN SkipBlanks(line, p + 1) ELSE p

\* The while(1) loop of sdssplitargs: whether NULL is returned, whether NULL
\* was dereferenced, the vector and *argc. sdsempty, s_realloc and s_malloc
\* are counted down by fail.
RECURSIVE ArgsLoop(_, _, _, _)
ArgsToken(line, vector, r, fail) ==
    IF r.current = SegvSds
    THEN [null |-> FALSE, segv |-> TRUE, vector |-> <<>>, argc |-> 0]
    ELSE IF r.err
    THEN [null |-> TRUE, segv |-> FALSE, vector |-> <<>>, argc |-> 0]
    ELSE IF fail = 1
    THEN [null |-> FALSE, segv |-> TRUE, vector |-> <<>>, argc |-> 0]
    ELSE ArgsLoop(line, r.p, Append(vector, r.current), Tick(fail))

ArgsLoop(line, p, vector, fail) ==
    IF CharAt(line, SkipBlanks(line, p)) # 0
    THEN ArgsToken(line, vector,
                   TokenLoop(line, SkipBlanks(line, p), FALSE, FALSE,
                             sdsempty(fail # 1)),
                   Tick(fail))
    ELSE IF vector = <<>> /\ fail = 1
    THEN [null |-> TRUE, segv |-> FALSE, vector |-> <<>>, argc |-> 0]
    ELSE [null |-> FALSE, segv |-> FALSE, vector |-> vector,
          argc |-> Len(vector)]

sdssplitargsFail(line, fail) == ArgsLoop(line, 0, <<>>, fail)
sdssplitargs(line) == sdssplitargsFail(line, 0)

\* sdsnewlen(NULL, initlen): memset(sh, 0, hdrlen+initlen+1) comes before
\* the test of sh
sdsnewlenNull(initlen, ok) ==
    IF ~ok THEN SegvSds
    ELSE sdsnewlen([i \in 1..initlen |-> 0], initlen, TRUE)

sdsclear(s) == [sdssetlen(s, 0) EXCEPT !.buf = BufWrite(@, 0, <<0>>)]

\* s_realloc when the header variant stays or is above SDS_TYPE_8, else
\* s_malloc, memcpy of the payload and its terminator, s_free
RemoveFreeShrink(s, len, type) ==
    IF s.type = type \/ type > SDS_TYPE_8
    THEN sdssetalloc([s EXCEPT !.size = len + 1,
                               !.buf = SubSeq(@, 1, len + 1)], len)
    ELSE sdssetalloc(sdssetlen([type |-> type, len |-> 0, alloc |-> 0,
                                buf |-> SubSeq(s.buf, 1, len + 1),
                                size |-> len + 1], len), len)

sdsRemoveFreeSpace(s, ok) ==
    IF sdsavail(s) = 0 THEN s
    ELSE IF ~ok THEN NoSds
    ELSE RemoveFreeShrink(s, sdslen(s), sdsReqType(sdslen(s)))

\* memset(s + curlen, 0, len - curlen + 1); sdssetlen(s, len)
GrowZeroAt(s, curlen, len) ==
    IF s = NoSds THEN NoSds
    ELSE sdssetlen([s EXCEPT !.buf = BufWrite(@, curlen,
                                  [i \in 1..(len - curlen + 1) |-> 0])], len)

sdsgrowzero(s, len, ok) ==
    IF len <= sdslen(s) THEN s
    ELSE GrowZeroAt(sdsMakeRoomFor(s, len - sdslen(s), ok), sdslen(s), len)

sdscpylen(s, t, len, ok) ==
    IF sdsalloc(s) < len
    THEN CatAt(sdsMakeRoomFor(s, len - sdslen(s), ok), 0, t, len)
    ELSE CatAt(s, 0, t, len)

\* strchr(cset, c): the terminator of cset is found for c = 0
InCset(cset, c) == c = 0 \/ \E i \in 1..strlen(cset) : cset[i] = c

\* while(sp <= end && strchr(cset, *sp)) sp++
RECURSIVE TrimStart(_, _, _)
TrimStart(s, cset, sp) ==
    IF sp <= sdslen(s) - 1 /\ InCset(cset, s.buf[sp + 1])
    THEN TrimStart(s, cset, sp + 1) ELSE sp

\* while(ep > sp && strchr(cset, *ep)) ep--
RECURSIVE TrimEnd(_, _, _, _)
TrimEnd(s, cset, sp, ep) ==
    IF ep > sp /\ InCset(cset, s.buf[ep + 1])
    THEN TrimEnd(s, cset, sp, ep - 1) ELSE ep

\* memmove(s, s + start, len); s[len] = 0; sdssetlen(s, len)
MoveDown(s, start, len) ==
    sdssetlen([s EXCEPT !.buf = BufWrite(
                             BufWrite(@, 0, SubSeq(s.buf, start + 1,
                                                   start + len)),
                             len, <<0>>)], len)

TrimTo(s, sp, ep) == MoveDown(s, sp, IF sp > ep THEN 0 ELSE ep - sp + 1)

sdstrim(s, cset) ==
    TrimTo(s, TrimStart(s, cset, 0),
           TrimEnd(s, cset, TrimStart(s, cset, 0), sdslen(s) - 1))

\* start and end of sdsrange once a negative index is counted from the end
RangeIndex(len, i) ==
    IF i < 0 THEN (IF len + i < 0 THEN 0 ELSE len + i) ELSE i
RangeLen(start, end) == IF start > end THEN 0 ELSE end - start + 1

\* newlen of sdsrange from the indexes that are not negative
RangeNewlen(len, start, end) ==
    IF RangeLen(start, end) # 0
    THEN IF start >= len THEN 0
         ELSE IF end >= len THEN RangeLen(start, len - 1)
         ELSE RangeLen(start, end)
    ELSE 0

sdsrange(s, start, end) ==
    IF sdslen(s) = 0 THEN s
    ELSE MoveDown(s,
                  IF RangeLen(RangeIndex(sdslen(s), start),
                              RangeIndex(sdslen(s), end)) # 0
                  THEN RangeIndex(sdslen(s), start) ELSE 0,
                  RangeNewlen(sdslen(s), RangeIndex(sdslen(s), start),
                              RangeIndex(sdslen(s), end)))

\* sdsinclen(s, l) after memcpy(s + i, str, l), on what sdsMakeRoomFor
\* returned
FmtPut(s, i, str) ==
    IF s = NoSds \/ s = SegvSds THEN SegvSds
    ELSE sdssetlen([s EXCEPT !.buf = BufWrite(@, i, str)],
                   sdslen(s) + Len(str))

\* if (sdsavail(s) < l) s = sdsMakeRoomFor(s, l), on what the call before
\* returned
FmtRoom(s, l, ok) ==
    IF s = NoSds \/ s = SegvSds THEN SegvSds
    ELSE IF sdsavail(s) < l THEN sdsMakeRoomFor(s, l, ok)
    ELSE s

\* The while(*f) loop of sdscatfmt for a format of %s, %% and plain bytes;
\* args are the C strings of the %s. The calls of sdsMakeRoomFor are counted
\* down by fail.
RECURSIVE FmtLoop(_, _, _, _, _, _)
FmtLoop(s, fmt, f, args, i, fail) ==
    IF CharAt(fmt, f) = 0 THEN s
    ELSE IF CharAt(fmt, f) = 37 /\ CharAt(fmt, f + 1) = 115
    THEN FmtLoop(FmtPut(FmtRoom(FmtRoom(s, 1, fail # 1),
                                strlen(Head(args)), fail # 2),
                        i, SubSeq(Head(args), 1, strlen(Head(args)))),
                 fmt, f + 2, Tail(args), i + strlen(Head(args)),
                 Tick(Tick(fail)))
    ELSE IF CharAt(fmt, f) = 37
    THEN FmtLoop(FmtPut(FmtRoom(s, 1, fail # 1), i, <<CharAt(fmt, f + 1)>>),
                 fmt, f + 2, args, i + 1, Tick(fail))
    ELSE FmtLoop(FmtPut(FmtRoom(s, 1, fail # 1), i, <<CharAt(fmt, f)>>),
                 fmt, f + 1, args, i + 1, Tick(fail))

\* s[i] = 0 at the end of sdscatfmt
FmtEnd(s) ==
    IF s = NoSds \/ s = SegvSds THEN SegvSds
    ELSE [s EXCEPT !.buf = BufWrite(@, sdslen(s), <<0>>)]

sdscatfmt(s, fmt, args, fail) ==
    FmtEnd(FmtLoop(s, fmt, 0, args, sdslen(s), fail))

\* ------------------------------------------------------------------ actions
Init ==
    /\ d = [ht |-> [t \in {0, 1} |-> NullHt], rehashidx |-> -1, iterators |-> 0]
    /\ dict_can_resize = TRUE
    /\ live = [k \in AllKeys |-> 0]
    /\ aborted = ""
    /\ iter = NoIter
    /\ scan = NoScan
    /\ unlinked = <<>>
    /\ zmap = zipmapNew
    /\ zset = <<>>
    /\ zout = [op |-> "new"]
    /\ lst = [node |-> [a \in NodeAddrs |-> NoNode],
              list |-> [l \in {ListL, ListO, ListCopy} |->
                          IF l = ListCopy THEN NoList
                          ELSE listCreate(FALSE, FALSE)],
              freed |-> {}]
    /\ liter = NoListIter
    /\ lout = [op |-> "create"]
    /\ sx = NoSds
    /\ sargv = <<>>
    /\ sout = [op |-> "none", aborted |-> FALSE]

\* the bookkeeping of the scan in progress when a dict call takes the dict to
\* dd2; a finished scan is forgotten
ScanTrack(dd2) ==
    scan' = IF scan = NoScan \/ scan.done THEN NoScan
            ELSE [scan EXCEPT !.stable = @ \cap DictKeys(dd2),
                              !.pending = @ \cap DictKeys(dd2)]

\* the bookkeeping of the iterator in use when a dict call of the given kind
\* ("add", "del", "mixed" for any other) takes the dict to dd2
Track(kind, dd2) ==
    IF iter = NoIter \/ iter.uaf THEN iter' = iter
    ELSE LET freed == DictKeys(d) \ DictKeys(dd2)
             ops1 == IF iter.done THEN {"mixed"}
                     ELSE IF Advanced(iter) THEN iter.ops \cup {kind}
                     ELSE iter.ops
             ops2 == IF ops1 \subseteq {"add"} \/ ops1 \subseteq {"del"}
                     THEN ops1 ELSE {"mixed"}
             logged == ops2 \subseteq {"add"}
         IN iter' = [iter EXCEPT
                       !.nextFreed = @ \/ (iter.nextEntry # NULL
                                           /\ iter.nextEntry \in freed),
                       !.ops = ops2,
                       !.seen = IF logged THEN @ ELSE <<>>,
                       !.stable = IF logged THEN @ ELSE {},
                       !.startIdx = IF logged THEN @ ELSE -2,
                       !.mutated = @ \/ (Advanced(iter) /\ ~iter.safe
                                         /\ kind \in {"add", "del"}
                                         /\ DictKeys(dd2) # DictKeys(d))]

\* the common end of a dict call with result r; a is the address the allocator
\* returns if the call allocates
FinishDict(r, a, kind) ==
    /\ r.alloc = 1 \/ (r.alloc = 0 /\ a \in {0, 1})
    /\ d' = r.d
    /\ aborted' = IF r.abort # "" THEN r.abort
                  ELSE IF \E i \in DOMAIN r.evts :
                             /\ r.evts[i].op = "zfree"
                             /\ r.evts[i].x \in DictKeys(r.d)
                  THEN "linked entry freed"
                  ELSE ""
    /\ Track(kind, r.d)
    /\ ScanTrack(r.d)

Finish(r, a, kind) ==
    /\ FinishDict(r, a, kind)
    /\ UNCHANGED unlinked

DictAdd(k, v, a) ==
    /\ aborted = ""
    /\ Finish(dictAdd(d, k, v, dict_can_resize, a), a, "add")
    /\ live' = IF live[k] = 0 THEN [live EXCEPT ![k] = v] ELSE live
    /\ UNCHANGED <<dict_can_resize, nondict>>

DictReplace(k, v, a) ==
    /\ aborted = ""
    /\ Finish(dictReplace(d, k, v, dict_can_resize, a), a, "mixed")
    /\ live' = [live EXCEPT ![k] = v]
    /\ UNCHANGED <<dict_can_resize, nondict>>

DictDelete(k) ==
    /\ aborted = ""
    /\ Finish(dictDelete(d, k), 0, "del")
    /\ live' = [live EXCEPT ![k] = 0]
    /\ UNCHANGED <<dict_can_resize, nondict>>

\* the entry dictUnlink returns, as the caller holds it: its key and value,
\* and how many times it has been freed
UnlinkedEntry(r, val) ==
    [key |-> r.ret, val |-> val,
     freed |-> Cardinality({i \in DOMAIN r.evts : r.evts[i].op = "zfree"})]

UnlinkEnd(r, val) ==
    /\ FinishDict(r, 0, "del")
    /\ unlinked' = IF r.abort = "" /\ r.ret # NULL
                   THEN Append(unlinked, UnlinkedEntry(r, val))
                   ELSE unlinked

DictUnlink(k) ==
    /\ aborted = ""
    /\ Len(unlinked) < MaxUnlinked
    /\ UnlinkEnd(dictUnlink(d, k), live[k])
    /\ live' = [live EXCEPT ![k] = 0]
    /\ UNCHANGED <<dict_can_resize, nondict>>

\* dictFreeUnlinkedEntry on the i-th entry held, on NULL when i = 0; freeing
\* an entry a second time is a fault
DictFreeUnlinkedEntry(i) ==
    /\ aborted = ""
    /\ i \in 0..Len(unlinked)
    /\ aborted' = IF dictFreeUnlinkedEntry(IF i = 0 THEN NoEntry
                                           ELSE unlinked[i]) # <<>>
                       /\ unlinked[i].freed > 0
                  THEN "double free" ELSE ""
    /\ unlinked' = IF i = 0 THEN unlinked
                   ELSE SubSeq(unlinked, 1, i - 1)
                        \o SubSeq(unlinked, i + 1, Len(unlinked))
    /\ UNCHANGED <<d, dict_can_resize, live, iter, scan, nondict>>

DictFind(k) ==
    /\ aborted = ""
    /\ Finish(dictFind(d, k), 0, "mixed")
    /\ UNCHANGED <<live, dict_can_resize, nondict>>

DictGetRandomKey ==
    /\ aborted = ""
    /\ Finish(dictGetRandomKey(d), 0, "mixed")
    /\ UNCHANGED <<live, dict_can_resize, nondict>>

DictExpand(size, a) ==
    /\ aborted = ""
    /\ Finish(dictExpand(d, size, a), a, "mixed")
    /\ UNCHANGED <<live, dict_can_resize, nondict>>

DictResize(a) ==
    /\ aborted = ""
    /\ Finish(dictResize(d, dict_can_resize, a), a, "mixed")
    /\ UNCHANGED <<live, dict_can_resize, nondict>>

DictRehash(n) ==
    /\ aborted = ""
    /\ Finish(dictRehash(d, n), 0, "mixed")
    /\ UNCHANGED <<live, dict_can_resize, nondict>>

DictEmpty ==
    /\ aborted = ""
    /\ Finish(Res(dictEmpty(d), 0), 0, "mixed")
    /\ live' = [k \in AllKeys |-> 0]
    /\ UNCHANGED <<dict_can_resize, nondict>>

DictEnableResize ==
    /\ aborted = ""
    /\ dict_can_resize' = TRUE
    /\ UNCHANGED <<d, live, aborted, iter, scan, unlinked, nondict>>

DictDisableResize ==
    /\ aborted = ""
    /\ dict_can_resize' = FALSE
    /\ UNCHANGED <<d, live, aborted, iter, scan, unlinked, nondict>>

DictGetIterator ==
    /\ aborted = ""
    /\ iter = NoIter
    /\ iter' = dictGetIterator
    /\ UNCHANGED <<d, dict_can_resize, live, aborted, scan, unlinked, nondict>>

DictGetSafeIterator ==
    /\ aborted = ""
    /\ iter = NoIter
    /\ iter' = dictGetSafeIterator
    /\ UNCHANGED <<d, dict_can_resize, live, aborted, scan, unlinked, nondict>>

\* dictNext reads freed memory in this call
UsesFreed(it) ==
    it.uaf \/ (it.entry # NULL /\ it.nextEntry # NULL /\ it.nextFreed)

\* the state after a dictNext call with result r; first: it was the first
\* call of the iteration
NextEnd(r, first) ==
    /\ d' = r.d
    /\ aborted' = r.abort
    /\ iter' = [r.it EXCEPT
                  !.seen = IF r.ret # NULL /\ r.it.ops \subseteq {"add"}
                           THEN Append(@, r.ret) ELSE @,
                  !.done = (r.ret = NULL /\ r.abort = ""),
                  !.stable = IF first THEN DictKeys(d) ELSE @,
                  !.startIdx = IF first /\ iter.safe THEN d.rehashidx ELSE @,
                  !.snap = IF first /\ ~iter.safe
                           THEN <<d.ht[0].table, d.ht[0].size, d.ht[0].used,
                                  d.ht[1].table, d.ht[1].size, d.ht[1].used>>
                           ELSE @]

\* one dictNext call of an iteration that has not returned NULL yet
DictNext(u) ==
    /\ aborted = ""
    /\ iter # NoIter
    /\ ~iter.done
    /\ IF iter.uaf THEN TRUE
       ELSE IF UsesFreed(iter) THEN u \in {-1, 0}
       ELSE u = 0
    /\ NextEnd(dictNext(iter, d, u), ~Advanced(iter))
    /\ UNCHANGED <<dict_can_resize, live, scan, unlinked, nondict>>

\* the iterator is freed unless the assertion aborts
ReleaseEnd(r) ==
    /\ d' = r.d
    /\ aborted' = r.abort
    /\ iter' = IF r.abort = "" THEN NoIter ELSE iter

DictReleaseIterator ==
    /\ aborted = ""
    /\ iter # NoIter
    /\ ReleaseEnd(dictReleaseIterator(iter, d))
    /\ UNCHANGED <<dict_can_resize, live, scan, unlinked, nondict>>

\* the state after a dictScan call with result r of the scan s
ScanEnd(s, r) ==
    scan' = [s EXCEPT !.v = r.v, !.pending = @ \ r.keys, !.done = (r.v = 0)]

ScanFrom(s) == ScanEnd(s, dictScan(d, s.v))

\* one dictScan call: with cursor 0 when no scan is in progress, else with
\* the cursor the last call returned
DictScan ==
    /\ aborted = ""
    /\ ScanFrom(IF scan = NoScan \/ scan.done THEN StartScan(d) ELSE scan)
    /\ UNCHANGED <<d, dict_can_resize, live, aborted, iter, unlinked, nondict>>

\* --------------------------------------------------------- zipmap actions
OnlyZipmap ==
    UNCHANGED <<d, dict_can_resize, live, aborted, iter, scan, unlinked, lvars,
                svars>>

SetEnd(r, key, val) ==
    /\ zmap' = r.zm
    /\ zset' = [k \in DOMAIN zset \cup {key} |->
                    IF k = key THEN val ELSE zset[k]]
    /\ zout' = [op |-> "set", key |-> key, update |-> r.update]
    /\ OnlyZipmap

ZipmapSet(key, val) == SetEnd(zipmapSet(zmap, key, val), key, val)

DelEnd(r, key) ==
    /\ zmap' = r.zm
    /\ zset' = [k \in DOMAIN zset \ {key} |-> zset[k]]
    /\ zout' = [op |-> "del", key |-> key, deleted |-> r.deleted]
    /\ OnlyZipmap

ZipmapDel(key) == DelEnd(zipmapDel(zmap, key), key)

GetEnd(r, key) ==
    /\ zout' = [op |-> "get", key |-> key, ret |-> r.ret, vlen |-> r.vlen,
                value |-> r.value]
    /\ UNCHANGED <<zmap, zset>>
    /\ OnlyZipmap

ZipmapGet(key) == GetEnd(zipmapGet(zmap, key), key)

ZipmapExists(key) ==
    /\ zout' = [op |-> "exists", key |-> key, ret |-> zipmapExists(zmap, key)]
    /\ UNCHANGED <<zmap, zset>>
    /\ OnlyZipmap

LenEnd(r) ==
    /\ zmap' = r.zm
    /\ zout' = [op |-> "len", len |-> r.len]
    /\ UNCHANGED zset
    /\ OnlyZipmap

ZipmapLen == LenEnd(zipmapLen(zmap))

\* ----------------------------------------------------------- adlist actions
OnlyList == UNCHANGED <<dvars, zvars, svars>>

\* the nodes of a list from node on, following next, at most n of them
RECURSIVE NodesFrom(_, _, _)
NodesFrom(st, node, n) ==
    IF node = NULL \/ n = 0 THEN <<>>
    ELSE <<node>> \o NodesFrom(st, st.node[node].next, n - 1)
ListNodes(st, l) == NodesFrom(st, st.list[l].head, NNodes + 1)
NodeSet(st, l) == {ListNodes(st, l)[i] : i \in 1..Len(ListNodes(st, l))}

\* a call that leaves the iterator alone
ListEnd(st, op, l, ret) ==
    /\ lst' = st
    /\ lout' = [op |-> op, ret |-> ret]
    /\ UNCHANGED liter
    /\ OnlyList

ListAddEnd(r, op, l) == ListEnd(r.st, op, l, r.ret)

ListAddNodeHead(l, value, ok) ==
    ListAddEnd(listAddNodeHead(lst, l, value, ok), "addhead", l)

ListAddNodeTail(l, value, ok) ==
    ListAddEnd(listAddNodeTail(lst, l, value, ok), "addtail", l)

ListInsertNode(l, old_node, value, after, ok) ==
    /\ old_node \in NodeSet(lst, l)
    /\ ListAddEnd(listInsertNode(lst, l, old_node, value, after, ok),
                  "insert", l)

ListDelNode(l, node) ==
    /\ node \in NodeSet(lst, l)
    /\ ListEnd(listDelNode(lst, l, node), "del", l, NULL)

ListRotate(l) == ListEnd(listRotate(lst, l), "rotate", l, NULL)

ListJoin(l, o) == l # o /\ ListEnd(listJoin(lst, l, o), "join", l, NULL)

ListEmpty(l) == ListEnd(listEmpty(lst, l), "empty", l, NULL)

ListSetDupMethod(l, m) ==
    ListEnd([lst EXCEPT !.list[l].dup = m], "setdup", l, NULL)

ListSetFreeMethod(l, m) ==
    ListEnd([lst EXCEPT !.list[l].free = m], "setfree", l, NULL)

ListDup(orig, fail) ==
    /\ ~lst.list[ListCopy].alloc
    /\ ListAddEnd(listDup(lst, orig, fail), "dup", orig)

ListRelease(l) ==
    /\ lst.list[l].alloc
    /\ ListEnd(listRelease(lst, l), "release", l, NULL)

\* the iterator with what the caller has seen: the nodes of the list when the
\* iterator was made, the nodes returned, a read of a freed node
ListGetIterator(l, direction) ==
    /\ liter = NoListIter
    /\ liter' = [next |-> listGetIterator(lst, l, direction).next,
                 direction |-> listGetIterator(lst, l, direction).direction,
                 list |-> l, orig |-> ListNodes(lst, l), seen |-> <<>>,
                 readFreed |-> FALSE]
    /\ lout' = [op |-> "iter", ret |-> NULL]
    /\ UNCHANGED lst
    /\ OnlyList

NextEndList(r) ==
    /\ liter' = [liter EXCEPT !.next = r.it.next,
                              !.seen = IF r.ret = NULL THEN @
                                       ELSE Append(@, r.ret),
                              !.readFreed = @ \/ r.readFreed]
    /\ lout' = [op |-> "next", ret |-> r.ret]
    /\ UNCHANGED lst
    /\ OnlyList

ListNext ==
    /\ liter # NoListIter
    /\ NextEndList(listNext(lst, [next |-> liter.next,
                                  direction |-> liter.direction]))

ListReleaseIterator ==
    /\ liter # NoListIter
    /\ liter' = NoListIter
    /\ lout' = [op |-> "releaseiter", ret |-> NULL]
    /\ UNCHANGED lst
    /\ OnlyList

\* -------------------------------------------------------------- sds actions
OnlySds == UNCHANGED <<dvars, zvars, lvars>>

\* the string in use becomes s unless the call returned NULL or aborted
SdsEnd(s, out) ==
    /\ sx' = IF s = NoSds THEN sx ELSE s
    /\ sout' = out
    /\ UNCHANGED sargv
    /\ OnlySds

SdsNewLen(init, initlen) ==
    /\ ~sout.aborted
    /\ SdsEnd(sdsnewlen(init, initlen, TRUE),
              [op |-> "new", aborted |-> FALSE, null |-> FALSE])

SdsCatEnd(s, t, len) ==
    SdsEnd(s, [op |-> "cat", aborted |-> FALSE, null |-> s = NoSds,
               t |-> t, len |-> len])

SdsCatLen(t, len, ok) ==
    /\ sx # NoSds /\ ~sout.aborted
    /\ sdslen(sx) + len <= MaxSdsLen
    /\ SdsCatEnd(sdscatlen(sx, t, len, ok), t, len)

SdsRoomEnd(s, addlen) ==
    SdsEnd(s, [op |-> "room", aborted |-> FALSE, null |-> s = NoSds,
               addlen |-> addlen])

SdsMakeRoomFor(addlen, ok) ==
    /\ sx # NoSds /\ ~sout.aborted
    /\ SdsRoomEnd(sdsMakeRoomFor(sx, addlen, ok), addlen)

SdsIncrEnd(r, incr) ==
    SdsEnd(r.s, [op |-> "incr", aborted |-> r.aborted, null |-> FALSE,
                 incr |-> incr, oob |-> r.oob])

SdsIncrLen(incr) ==
    /\ sx # NoSds /\ ~sout.aborted
    /\ sdslen(sx) + incr <= MaxSdsLen
    /\ SdsIncrEnd(sdsIncrLen(sx, incr), incr)

\* one more string in the array
SdsArgvAdd(init) ==
    /\ Len(sargv) < MaxArgc
    /\ sargv' = Append(sargv, sdsnewlen(init, Len(init), TRUE))
    /\ sout' = [op |-> "argv", aborted |-> FALSE]
    /\ UNCHANGED sx
    /\ OnlySds

\* join = sdsjoinsds(argv, argc, sep, seplen), then
\* sdssplitlen(join, sdslen(join), sep, seplen, &count)
SdsSplitEnd(join, sep) ==
    /\ sout' = [op |-> "joinsplit", aborted |-> FALSE, sep |-> sep,
                join |-> join,
                split |-> sdssplitlen(SdsBytes(join), sdslen(join), sep,
                                      Len(sep), -1)]
    /\ UNCHANGED <<sx, sargv>>
    /\ OnlySds

SdsJoinSplit(sep) ==
    SdsSplitEnd(sdsjoinsds(sargv, Len(sargv), sep, Len(sep)), sep)

\* sdssplitlen(s, len, sep, seplen, &count) with count in *count before
SdsSplitLen(s, sep, count) ==
    /\ sout' = [op |-> "split", aborted |-> FALSE, sep |-> sep,
                count |-> count,
                split |-> sdssplitlen(s, Len(s), sep, Len(sep), count)]
    /\ UNCHANGED <<sx, sargv>>
    /\ OnlySds

SdsSplitArgs(line) ==
    /\ sout' = [op |-> "args", aborted |-> FALSE, line |-> line,
                args |-> sdssplitargs(line)]
    /\ UNCHANGED <<sx, sargv>>
    /\ OnlySds

\* repr = sdscatrepr(sdsempty(), x, len), then sdssplitargs(repr, &argc)
SdsReprEnd(x, repr) ==
    /\ sout' = [op |-> "reprargs", aborted |-> FALSE, x |-> x, repr |-> repr,
                args |-> sdssplitargs(SdsBytes(repr))]
    /\ UNCHANGED <<sx, sargv>>
    /\ OnlySds

SdsReprArgs(x, hiprint) ==
    SdsReprEnd(x, sdscatrepr(sdsempty(TRUE), x, Len(x), hiprint, 0))

\* the end of a call that returns the string, NULL, or never returns because
\* NULL was dereferenced
SdsRetEnd(op, s) ==
    /\ sx' = IF s = NoSds \/ s = SegvSds THEN sx ELSE s
    /\ sout' = [op |-> op, aborted |-> s = SegvSds, null |-> s = NoSds,
                segv |-> s = SegvSds]
    /\ UNCHANGED sargv
    /\ OnlySds

\* the calls on sx whose result is at most MaxSdsLen long
SdsCall(op, s) ==
    /\ sx # NoSds /\ ~sout.aborted
    /\ sdslen(s) <= MaxSdsLen
    /\ SdsRetEnd(op, s)

SdsNewLenNull(initlen, ok) ==
    /\ ~sout.aborted
    /\ SdsRetEnd("newnull", sdsnewlenNull(initlen, ok))

SdsCpyLen(t, len, ok) == SdsCall("cpy", sdscpylen(sx, t, len, ok))
SdsGrowZero(len, ok) == SdsCall("growzero", sdsgrowzero(sx, len, ok))
SdsRemoveFreeSpace(ok) == SdsCall("removefree", sdsRemoveFreeSpace(sx, ok))
SdsTrim(cset) == SdsCall("trim", sdstrim(sx, cset))
SdsRange(start, end) == SdsCall("range", sdsrange(sx, start, end))
SdsClear == SdsCall("clear", sdsclear(sx))
SdsCatFmt(fmt, args, fail) ==
    SdsCall("catfmt", sdscatfmt(sx, fmt, args, fail))
SdsCatRepr(x, fail) ==
    SdsCall("catrepr", sdscatrepr(sx, x, Len(x), FALSE, fail))

SdsArgsEnd(line, r) ==
    /\ ~sout.aborted
    /\ sout' = [op |-> "argsfail", aborted |-> r.segv, null |-> r.null,
                segv |-> r.segv, line |-> line,
                nullarg |-> \E i \in DOMAIN r.vector : r.vector[i] = NoSds]
    /\ UNCHANGED <<sx, sargv>>
    /\ OnlySds

SdsSplitArgsFail(line, fail) == SdsArgsEnd(line, sdssplitargsFail(line, fail))

\* ----------------------------------------------------------- specifications
\* every dict call, with every input (the allocator takes the lowest address)
DictOp ==
    \/ \E k \in Keys, v \in Vals : DictAdd(k, v, 0)
    \/ \E k \in Keys, v \in Vals : DictReplace(k, v, 0)
    \/ \E k \in Keys : DictDelete(k)
    \/ \E k \in Keys : DictFind(k)
    \/ DictGetRandomKey
    \/ \E size \in 1..MaxSize : DictExpand(size, 0)
    \/ DictResize(0)
    \/ \E n \in 1..MaxRehashN : DictRehash(n)
    \/ DictEmpty
    \/ DictEnableResize
    \/ DictDisableResize

Next == DictOp
Spec == Init /\ [][Next]_vars

\* the dict calls made before and during a safe iteration: one value,
\* resizing enabled
DictOpSafe ==
    \/ \E k \in IterKeys : DictAdd(k, 1, 0)
    \/ \E k \in IterKeys : DictReplace(k, 1, 0)
    \/ \E k \in IterKeys : DictDelete(k)
    \/ \E k \in IterKeys : DictFind(k)
    \/ DictGetRandomKey
    \/ \E size \in 1..MaxSize : DictExpand(size, 0)
    \/ DictResize(0)
    \/ \E n \in 1..MaxRehashN : DictRehash(n)
    \/ DictEmpty

SafeIterOp ==
    \/ DictGetSafeIterator
    \/ \E u \in -1..(NKeys - 1) : DictNext(u)
    \/ DictReleaseIterator

NextSafe == DictOpSafe \/ SafeIterOp
SpecSafe == Init /\ [][NextSafe]_vars

\* a safe iteration during which the only dict calls are dictAdd, of stored
\* and of new keys: any dict call builds the dict before the iterator is
\* obtained
DictOpBuild ==
    \/ \E k \in Keys : DictAdd(k, 1, 0)
    \/ \E k \in Keys : DictDelete(k)
    \/ \E size \in 1..MaxSize : DictExpand(size, 0)
    \/ DictResize(0)
    \/ \E n \in 1..MaxRehashN : DictRehash(n)

NextSafeAdd ==
    \/ iter = NoIter /\ DictOpBuild
    \/ iter # NoIter /\ ~iter.done /\ \E k \in AddKeys : DictAdd(k, 1, 0)
    \/ SafeIterOp
SpecSafeAdd == Init /\ [][NextSafeAdd]_vars

\* an unsafe iteration: any dict call builds the dict before the iterator is
\* obtained; while it is in use the dict calls are dictAdd, dictDelete,
\* dictFind and dictRehash, the allocator returning any free address
DictOpKeys ==
    \/ \E k \in IterKeys : DictAdd(k, 1, 0)
    \/ \E k \in IterKeys : DictDelete(k)
    \/ \E size \in 1..MaxSize : DictExpand(size, 0)
    \/ DictResize(0)
    \/ \E n \in 1..MaxRehashN : DictRehash(n)

DictOpUnsafe ==
    \/ \E k \in IterKeys, a \in Addrs : DictAdd(k, 1, a)
    \/ \E k \in IterKeys : DictDelete(k)
    \/ \E k \in IterKeys : DictFind(k)
    \/ \E n \in 1..MaxRehashN : DictRehash(n)

UnsafeIterOp ==
    \/ DictGetIterator
    \/ \E u \in -1..(NKeys - 1) : DictNext(u)
    \/ DictReleaseIterator

NextUnsafe ==
    \/ iter = NoIter /\ DictOpKeys
    \/ iter # NoIter /\ DictOpUnsafe
    \/ UnsafeIterOp
SpecUnsafe == Init /\ [][NextUnsafe]_vars

\* a scan with any dictAdd, dictDelete, dictExpand, dictResize and dictRehash
\* between the dictScan calls
DictOpScan ==
    \/ \E k \in IterKeys : DictAdd(k, 1, 0)
    \/ \E k \in IterKeys : DictDelete(k)
    \/ \E size \in 1..MaxSize : DictExpand(size, 0)
    \/ DictResize(0)
    \/ \E n \in 1..MaxRehashN : DictRehash(n)

NextScan == DictOpScan \/ DictScan
SpecScan == Init /\ [][NextScan]_vars

\* a dict with no iterator, whose callers keep calling: while the dict is
\* rehashing, a call that runs a rehash step is made again and again
DictOpRehash ==
    \/ \E k \in Keys : DictAdd(k, 1, 0)
    \/ \E k \in Keys : DictReplace(k, 1, 0)
    \/ \E k \in Keys : DictDelete(k)
    \/ \E k \in Keys : DictFind(k)
    \/ \E size \in 1..MaxSize : DictExpand(size, 0)
    \/ DictResize(0)
    \/ \E n \in 1..MaxRehashN : DictRehash(n)

\* the calls that reach _dictRehashStep or dictRehash on a rehashing dict
RehashStepOp ==
    /\ dictIsRehashing(d)
    /\ \/ \E n \in 1..MaxRehashN : DictRehash(n)
       \/ dictSize(d) > 0 /\ \E k \in Keys : DictFind(k)
       \/ dictSize(d) > 0 /\ \E k \in Keys : DictDelete(k)
       \/ \E k \in Keys : DictAdd(k, 1, 0)
       \/ \E k \in Keys : DictReplace(k, 1, 0)

NextRehash == DictOpRehash
SpecRehash == Init /\ [][NextRehash]_vars /\ WF_vars(RehashStepOp)

\* a caller of two keys, the buckets 0 and 31, and of tables of up to 64
\* buckets: dictRehash meets more empty buckets than it visits in one call
FarSizes == {16, 32, 64}
DictOpFar ==
    \/ \E k \in {1, FarKey} : DictAdd(k, 1, 0)
    \/ \E k \in {1, FarKey} : DictDelete(k)
    \/ \E k \in {1, FarKey} : DictUnlink(k)
    \/ \E i \in 1..MaxUnlinked : DictFreeUnlinkedEntry(i)
    \/ \E k \in {1, FarKey} : DictFind(k)
    \/ \E size \in FarSizes : DictExpand(size, 0)
    \/ \E n \in 1..MaxRehashN : DictRehash(n)

NextFar == DictOpFar
SpecFar == Init /\ [][NextFar]_vars

\* a caller that fills the dict with the keys 1, 2, ... in this order and
\* deletes the key added last, with the resize flag switched at any time
DictOpLoad ==
    \/ dictSize(d) < NLoadKeys /\ DictAdd(dictSize(d) + 1, 1, 0)
    \/ dictSize(d) > 0 /\ DictDelete(dictSize(d))
    \/ DictRehash(1)
    \/ DictEnableResize
    \/ DictDisableResize

NextLoad == DictOpLoad
SpecLoad == Init /\ [][NextLoad]_vars

\* a caller that removes entries with dictDelete and with dictUnlink, freeing
\* the unlinked entries later
DictOpUnlink ==
    \/ \E k \in IterKeys : DictAdd(k, (k % 2) + 1, 0)
    \/ \E k \in IterKeys : DictDelete(k)
    \/ \E k \in IterKeys : DictUnlink(k)
    \/ \E i \in 0..MaxUnlinked : DictFreeUnlinkedEntry(i)
    \/ \E k \in IterKeys : DictFind(k)
    \/ \E size \in 1..MaxSize : DictExpand(size, 0)
    \/ \E n \in 1..MaxRehashN : DictRehash(n)

NextUnlink == DictOpUnlink
SpecUnlink == Init /\ [][NextUnlink]_vars

\* the list calls on two lists, every allocation succeeding or failing
ListOp ==
    \/ \E l \in {ListL, ListO}, ok \in BOOLEAN :
          \/ ListAddNodeHead(l, 1, ok)
          \/ ListAddNodeTail(l, 1, ok)
          \/ \E n \in NodeAddrs, after \in {0, 1} :
                ListInsertNode(l, n, 1, after, ok)
    \/ \E l \in {ListL, ListO}, n \in NodeAddrs : ListDelNode(l, n)
    \/ \E l \in {ListL, ListO} : ListRotate(l)
    \/ \E l \in {ListL, ListO}, o \in {ListL, ListO} : ListJoin(l, o)
    \/ \E l \in {ListL, ListO} : ListEmpty(l)

NextList == ListOp
SpecList == Init /\ [][NextList]_vars

\* A list is built, then iterated from either end with listDelNode of every
\* node listNext returns.
ListOpIter ==
    \/ \E v \in ListVals :
          liter = NoListIter /\ ListAddNodeTail(ListL, v, TRUE)
    \/ \E direction \in {AL_START_HEAD, AL_START_TAIL} :
          ListGetIterator(ListL, direction)
    \/ lout.op \in {"iter", "del"} /\ ListNext
    \/ lout.op = "next" /\ lout.ret # NULL /\ ListDelNode(ListL, lout.ret)
    \/ lout.op = "next" /\ lout.ret = NULL /\ ListReleaseIterator

NextListIter == ListOpIter
SpecListIter == Init /\ [][NextListIter]_vars

\* A list whose k-th added value is k, rotated and shortened at any node.
ListOpRotate ==
    \/ ListAddNodeTail(ListL, lst.list[ListL].len + 1, TRUE)
    \/ ListRotate(ListL)
    \/ \E node \in NodeAddrs : ListDelNode(ListL, node)

NextListRotate == ListOpRotate
SpecListRotate == Init /\ [][NextListRotate]_vars

\* A list with or without dup and free methods is built with allocations that
\* succeed or fail, and duplicated with the fail-th allocation or dup call
\* failing.
ListOpDup ==
    \/ \E v \in {1}, ok \in BOOLEAN :
          \/ ListAddNodeHead(ListL, v, ok)
          \/ ListAddNodeTail(ListL, v, ok)
          \/ \E old_node \in NodeAddrs, after \in 0..1 :
                ListInsertNode(ListL, old_node, v, after, ok)
    \/ \E m \in BOOLEAN :
          ListSetDupMethod(ListL, m) \/ ListSetFreeMethod(ListL, m)
    \/ \E fail \in 0..MaxFail : ListDup(ListL, fail)
    \/ ListRelease(ListCopy)

NextListDup == ListOpDup
SpecListDup == Init /\ [][NextListDup]_vars

\* A string is made, appended to, given room and has its length moved.
SdsInits == {<<>>, Foo}
SdsAddLens == {0, 10, 200, 40000, SDS_MAX_PREALLOC - 3}
SdsIncrs == {-1, 0, 1}
SdsOp ==
    \/ \E init \in SdsInits : \E initlen \in 0..Len(init) :
          SdsNewLen(init, initlen)
    \/ \E len \in {0, 2, Len(Bar)}, ok \in BOOLEAN : SdsCatLen(Bar, len, ok)
    \/ \E addlen \in SdsAddLens, ok \in BOOLEAN : SdsMakeRoomFor(addlen, ok)
    \/ \E incr \in SdsIncrs : SdsIncrLen(incr)

NextSds == SdsOp
SpecSds == Init /\ [][NextSds]_vars

\* An array of strings is built, joined and split again.
SdsElems == {<<>>, <<97>>, <<98>>, <<97, 98>>, <<98, 97>>}
SdsSeps == {<<97>>, <<44>>, <<97, 97>>, <<97, 98>>, <<44, 32>>}
SdsOpSplit ==
    \/ \E init \in SdsElems : SdsArgvAdd(init)
    \/ \E sep \in SdsSeps : SdsJoinSplit(sep)

NextSdsSplit == SdsOpSplit
SpecSdsSplit == Init /\ [][NextSdsSplit]_vars

\* A string goes through the calls that change it.
SdsRanges == {<<0, -1>>, <<1, -1>>, <<1, 1>>, <<-2, -1>>, <<2, 1>>, <<0, 10>>,
              <<7, 9>>}
SdsCsets == {<<102>>, <<111, 114>>}
SdsOpAll ==
    \/ \E init \in SdsInits : \E initlen \in 0..Len(init) :
          SdsNewLen(init, initlen)
    \/ \E len \in {2, Len(Bar)} : SdsCatLen(Bar, len, TRUE)
    \/ \E t \in {Bar, <<102, 111, 111, 98, 97>>} : SdsCpyLen(t, Len(t), TRUE)
    \/ \E len \in {0, 2, 5} : SdsGrowZero(len, TRUE)
    \/ \E addlen \in {0, 10} : SdsMakeRoomFor(addlen, TRUE)
    \/ SdsRemoveFreeSpace(TRUE)
    \/ \E incr \in SdsIncrs : SdsIncrLen(incr)
    \/ \E cset \in SdsCsets : SdsTrim(cset)
    \/ \E r \in SdsRanges : SdsRange(r[1], r[2])
    \/ SdsClear

NextSdsAll == SdsOpAll
SpecSdsAll == Init /\ [][NextSdsAll]_vars

\* A string goes through the calls that allocate, with allocations that fail.
SdsFmts == {<<37, 115>>, <<97, 37, 37>>, <<37, 115, 98>>}
SdsOpFail ==
    \/ \E initlen \in 0..Len(Foo) : SdsNewLen(Foo, initlen)
    \/ \E initlen \in {0, 2}, ok \in BOOLEAN : SdsNewLenNull(initlen, ok)
    \/ \E t \in {Bar, <<102, 111, 111, 98, 97>>}, ok \in BOOLEAN :
          SdsCpyLen(t, Len(t), ok)
    \/ \E len \in {0, 2, 5}, ok \in BOOLEAN : SdsGrowZero(len, ok)
    \/ \E ok \in BOOLEAN : SdsRemoveFreeSpace(ok)
    \/ \E fmt \in SdsFmts, fail \in 0..2 : SdsCatFmt(fmt, <<Bar>>, fail)
    \/ \E x \in {<<>>, <<97>>, <<10>>}, fail \in 0..3 : SdsCatRepr(x, fail)
    \/ \E line \in {<<>>, <<97, 32, 98>>, <<34, 34>>}, fail \in 0..3 :
          SdsSplitArgsFail(line, fail)

NextSdsFail == SdsOpFail
SpecSdsFail == Init /\ [][NextSdsFail]_vars

\* Strings and lines are split, and representations are parsed back.
ArgLines ==
    {<<>>, <<32, 32>>, <<97, 32, 98>>,
     <<34, 97, 32, 98, 34, 32, 99>>,          \* "a b" c
     <<34, 97, 34, 98>>,                      \* "a"b
     <<34, 97>>,                              \* "a
     <<39, 97, 39, 98>>,                      \* 'a'b
     <<97, 32, 39, 98>>,                      \* a 'b
     <<39, 97, 92, 39, 39>>,                  \* 'a\''
     <<34, 92, 120, 52, 49, 92, 110, 34>>}    \* "\x41\n"
ReprBytes == {0, 1, 7, 8, 9, 10, 13, 32, 34, 39, 49, 92, 97, 120, 127, 200}
ReprInputs ==
    {<<>>} \cup {<<c>> : c \in ReprBytes}
           \cup {<<c, e>> : c \in ReprBytes, e \in ReprBytes}
           \cup {<<92, 120, 52, 49>>, <<7, 10, 0, 102, 111, 111, 13>>}
SdsOpArgs ==
    \/ \E s \in {<<>>, <<97, 44, 98>>}, sep \in {<<>>, <<44>>},
          count \in {0, 7} : SdsSplitLen(s, sep, count)
    \/ \E line \in ArgLines : SdsSplitArgs(line)
    \/ \E x \in ReprInputs, hiprint \in BOOLEAN : SdsReprArgs(x, hiprint)

NextSdsArgs == SdsOpArgs
SpecSdsArgs == Init /\ [][NextSdsArgs]_vars

\* the zipmap calls over the short and the long keys and values
ZipmapOp ==
    \/ \E key \in ZKeys, val \in ZVals : ZipmapSet(key, val)
    \/ \E key \in ZKeys : ZipmapDel(key)
    \/ \E key \in ZKeys : ZipmapGet(key)
    \/ \E key \in ZKeys : ZipmapExists(key)
    \/ ZipmapLen

NextZipmap == ZipmapOp
SpecZipmap == Init /\ [][NextZipmap]_vars

\* the updates of two entries by values of many lengths
ZipmapOpSlack ==
    \/ \E key \in ZSlackKeys, val \in ZSlackVals : ZipmapSet(key, val)
    \/ \E key \in ZSlackKeys : ZipmapDel(key)

NextZipmapSlack == ZipmapOpSlack
SpecZipmapSlack == Init /\ [][NextZipmapSlack]_vars

\* the calls with keys and values of 254 bytes among short ones
ZipmapOpLong ==
    \/ \E kv \in ZLongSets : ZipmapSet(kv[1], kv[2])
    \/ \E key \in ZLongKeys : ZipmapDel(key)
    \/ \E key \in ZLongKeys : ZipmapGet(key)

NextZipmapLong == ZipmapOpLong
SpecZipmapLong == Init /\ [][NextZipmapLong]_vars

\* A zipmap filled beyond ZIPMAP_BIGLEN entries and emptied again: the next
\* key is added, the last one deleted, the entries counted.
ZipmapOpLen ==
    \/ \E n \in {Cardinality(DOMAIN zset)} :
          n < NLenKeys /\ ZipmapSet(<<n>>, <<>>)
    \/ \E n \in {Cardinality(DOMAIN zset)} :
          n > 0 /\ ZipmapDel(<<n - 1>>)
    \/ ZipmapLen

NextZipmapLen == ZipmapOpLen
SpecZipmapLen == Init /\ [][NextZipmapLen]_vars

\* ------------------------------------------------------------------- claims
\* C1: after any sequence of dictAdd, dictReplace, dictDelete, dictExpand,
\* dictResize and rehash steps, dictFind(k) finds an entry exactly when k was
\* inserted and not deleted since, and the entry holds the value stored last;
\* this holds in the middle of a rehash too.
C1_FindReturnsLive ==
    \A k \in Keys : LET r == dictFind(d, k)
                    IN r.abort = "" /\ r.ret = live[k]

\* a rehash is in progress, a key with the second value is found in ht[1], a
\* key is found in ht[0], and a key that was deleted or never added is not found
C1_Witness ==
    /\ dictIsRehashing(d)
    /\ \E k1, k2, k3 \in Keys :
          /\ k1 \in HtKeys(d.ht[0]) /\ dictFind(d, k1).ret = live[k1]
          /\ k2 \in HtKeys(d.ht[1]) /\ live[k2] = 2 /\ dictFind(d, k2).ret = 2
          /\ live[k3] = 0 /\ dictFind(d, k3).ret = NULL

\* C2: a scan from cursor 0 until dictScan returns 0 has passed to fn every
\* key that was in the dict during the whole scan, whatever dictAdd,
\* dictDelete, dictExpand, dictResize and dictRehash calls were made between
\* the dictScan calls.
C2_ScanVisitsAll ==
    (scan # NoScan /\ scan.done) => scan.pending = {}

\* a finished scan that began on a table of 4 buckets, which was since
\* expanded to 8 and is being shrunk, with two keys there all along
C2_Witness ==
    /\ scan # NoScan
    /\ scan.done
    /\ scan.size = DICT_HT_INITIAL_SIZE
    /\ d.ht[0].size = 2 * DICT_HT_INITIAL_SIZE
    /\ dictIsRehashing(d)
    /\ d.ht[1].size = DICT_HT_INITIAL_SIZE
    /\ Cardinality(scan.stable) >= 2

\* the dict after a call: the call's rehash step has moved no entry from ht[0]
\* to ht[1] and has left rehashidx alone
NoStep(dd2) ==
    /\ dd2.rehashidx = d.rehashidx
    /\ HtKeys(d.ht[0]) \cap HtKeys(dd2.ht[1]) = {}

StepsAreNoOps ==
    /\ NoStep(dictGetRandomKey(d).d)
    /\ \A k \in Keys :
          /\ NoStep(dictAdd(d, k, 1, dict_can_resize, 0).d)
          /\ NoStep(dictFind(d, k).d)
          /\ NoStep(dictDelete(d, k).d)

SeenCount(k) == Cardinality({i \in DOMAIN iter.seen : iter.seen[i] = k})

\* C4: a safe iterator run until dictNext returns NULL, with only dictAdd calls
\* between the dictNext calls, has returned every key that was in the dict
\* at the first dictNext exactly once.
C4_SafeIterEveryKeyOnce ==
    (iter # NoIter /\ iter.safe /\ iter.done /\ iter.ops \subseteq {"add"})
        => \A k \in iter.stable : SeenCount(k) = 1

\* a finished safe iteration that began on a full table that was not
\* rehashing, during which a dictAdd of a new key started the expansion
C4_Witness ==
    /\ iter # NoIter
    /\ iter.safe
    /\ iter.done
    /\ iter.ops = {"add"}
    /\ iter.startIdx = -1
    /\ Cardinality(iter.stable) >= DICT_HT_INITIAL_SIZE
    /\ dictIsRehashing(d)
    /\ d.rehashidx = 0
    /\ DictKeys(d) \ iter.stable # {}
    /\ Len(iter.seen) >= DICT_HT_INITIAL_SIZE

\* C5: with only dictDelete calls between the dictNext calls of a safe
\* iterator, dictNext never reads an entry that has been freed.
C5_NoFreedEntryRead ==
    (iter # NoIter /\ iter.safe /\ iter.ops \subseteq {"del"}) => ~iter.uaf

\* table, size and used of both tables, as dictFingerprint reads them
SnapNow ==
    <<d.ht[0].table, d.ht[0].size, d.ht[0].used,
      d.ht[1].table, d.ht[1].size, d.ht[1].used>>

ReleaseAborts == dictReleaseIterator(iter, d).abort = "assert fingerprint"

C7_UnsafeIterLiveKeysOnce ==
    (iter # NoIter /\ ~iter.safe /\ iter.done /\ iter.ops = {})
        => /\ {iter.seen[i] : i \in DOMAIN iter.seen}
                = {k \in AddKeys : live[k] # 0}
           /\ Len(iter.seen) = Cardinality({k \in AddKeys : live[k] # 0})

\* a finished unsafe iteration in the middle of a rehash, entries in both
\* tables
C7_Witness ==
    /\ iter # NoIter
    /\ ~iter.safe
    /\ iter.done
    /\ iter.ops = {}
    /\ d.rehashidx >= 1
    /\ d.ht[0].used >= 1
    /\ d.ht[1].used >= 2
    /\ Len(iter.seen) = 3

\* C8: whenever rehashidx = -1, ht[1] is empty and unallocated: table NULL,
\* size 0, sizemask 0, used 0.
C8_IdleSecondTableUnallocated ==
    d.rehashidx = -1 =>
        /\ d.ht[1].table = NULL
        /\ d.ht[1].size = 0
        /\ d.ht[1].sizemask = 0
        /\ d.ht[1].used = 0
        /\ HtKeys(d.ht[1]) = {}

\* a rehash has completed: ht[0] is the bucket array that was allocated second
\* and holds the entries, and the dict is not rehashing
C8_Witness ==
    /\ d.rehashidx = -1
    /\ d.ht[0].table = 2
    /\ d.ht[0].used >= 2
    /\ d.ht[1].table = NULL

\* the buckets of ht[0] below rehashidx are empty
MigratedPrefixEmpty ==
    dictIsRehashing(d) =>
        \A i \in 0..(d.ht[0].size - 1) :
            i < d.rehashidx => d.ht[0].buckets[i] = <<>>

\* a key that a step adds while the dict is rehashing afterwards is in ht[1]
NewEntriesInSecond ==
    \A k \in Keys : (dictIsRehashing(d') /\ k \notin DictKeys(d)
                       /\ k \in DictKeys(d'))
                    => k \in HtKeys(d'.ht[1])

\* the step stays within one rehash: rehashing before and after, ht[0] the
\* same bucket array
SameRehash ==
    dictIsRehashing(d) /\ dictIsRehashing(d') /\ d'.ht[0].table = d.ht[0].table

\* C9 (as amended): when rehashidx >= 0 every bucket of ht[0] below rehashidx
\* is empty; an entry added while rehashing goes to ht[1]; and during one
\* rehash (ht[0] staying the same bucket array) ht[0] gains no entry and
\* ht[0].used does not increase.
C9_Amended ==
    /\ []MigratedPrefixEmpty
    /\ [][/\ NewEntriesInSecond
          /\ SameRehash => /\ d'.ht[0].used <= d.ht[0].used
                           /\ HtKeys(d'.ht[0]) \subseteq HtKeys(d.ht[0])]_vars

\* C9 as stated: from a state with rehashidx >= 0 to a state with
\* rehashidx >= 0, ht[0].used never increases.
C9_Original ==
    [][(d.rehashidx >= 0 /\ d'.rehashidx >= 0)
          => d'.ht[0].used <= d.ht[0].used]_vars

\* a rehash has moved the first buckets, and ht[1] holds a key whose ht[0]
\* bucket has not been reached yet: it was inserted during the rehash
C9_Witness ==
    /\ d.rehashidx >= 1
    /\ d.ht[0].used >= 1
    /\ \E k \in HtKeys(d.ht[1]) :
          BitAnd(dictHashKey(k), d.ht[0].sizemask) >= d.rehashidx

\* the step takes rehashidx from -1 to 0 as a dictExpand of some size on the
\* allocated ht[0] does: ht[0] stays the same bucket array and ht[1] is the
\* new one
StartsByExpand ==
    /\ d'.rehashidx = 0
    /\ d.ht[0].table # NULL
    /\ \E size \in 1..(2 * NKeys + MaxSize) :
          LET e == dictExpand(d, size, d'.ht[1].table)
          IN /\ e.ret = DICT_OK
             /\ e.d.rehashidx = 0
             /\ d'.ht[0].table = e.d.ht[0].table
             /\ d'.ht[0].size = e.d.ht[0].size
             /\ d'.ht[1].size = e.d.ht[1].size

\* the step takes rehashidx back to -1 as a dictRehash that finds ht[0].used
\* = 0 does: ht[0] becomes the old ht[1] and holds every key still stored
EndsByRehash ==
    \E n \in 1..MaxRehashN :
        LET r == dictRehash(d, n)
        IN /\ r.abort = "" /\ r.ret = 0
           /\ ~dictIsRehashing(r.d)
           /\ d'.ht[0].table = d.ht[1].table
           /\ d'.ht[0].size = d.ht[1].size
           /\ \A k \in Keys : live'[k] # 0 => k \in HtKeys(d'.ht[0])

\* C10 (as amended): rehashidx goes from -1 to 0 only by a dictExpand on a
\* dict whose ht[0] is allocated, never to another value; it goes from >= 0
\* back to -1 only by a dictRehash that has emptied ht[0], or by dictEmpty,
\* which resets it whatever ht[0] holds.
C10_Amended ==
    [][/\ (d.rehashidx = -1 /\ d'.rehashidx # -1) => StartsByExpand
       /\ (d.rehashidx # -1 /\ d'.rehashidx = -1)
             => (EndsByRehash \/ d' = dictEmpty(d))]_vars

\* C10 as stated: rehashidx goes from -1 to 0 only by a dictExpand on an
\* allocated ht[0], and from >= 0 back to -1 only by a dictRehash that has
\* emptied ht[0].
C10_Original ==
    [][/\ (d.rehashidx = -1 /\ d'.rehashidx # -1) => StartsByExpand
       /\ (d.rehashidx # -1 /\ d'.rehashidx = -1) => EndsByRehash]_vars

\* a rehash is in progress with entries left in ht[0] that one dictRehash
\* call does not finish, while dictEmpty takes the dict back to rehashidx = -1
C10_Witness ==
    /\ dictIsRehashing(d)
    /\ d.rehashidx >= 1
    /\ d.ht[0].used >= 2
    /\ dictRehash(d, 1).d.rehashidx # -1
    /\ dictEmpty(d).rehashidx = -1
\* the entries of the two tables are the keys stored and not deleted, each in
\* one place, and used counts them
EntriesKept ==
    /\ DictKeys(d) = {k \in AddKeys : live[k] # 0}
    /\ HtKeys(d.ht[0]) \cap HtKeys(d.ht[1]) = {}
    /\ d.ht[0].used = Cardinality(HtKeys(d.ht[0]))
    /\ d.ht[1].used = Cardinality(HtKeys(d.ht[1]))
    /\ HtCount(d.ht[0]) = d.ht[0].used
    /\ HtCount(d.ht[1]) = d.ht[1].used

\* the rehash ends with ht[0] the former ht[1] and ht[1] reset
SecondBecomesFirst ==
    (d.rehashidx # -1 /\ d'.rehashidx = -1)
        => /\ d'.ht[0].table = d.ht[1].table
           /\ d'.ht[0].size = d.ht[1].size
           /\ d'.ht[1] = NullHt

\* C11: with no safe iterator, a rehashing dict whose callers keep making
\* calls that run a rehash step becomes idle, with ht[0] the former ht[1] and
\* ht[1] reset; no entry is lost or duplicated on the way.
C11_RehashTerminates ==
    /\ dictIsRehashing(d) ~> (d.rehashidx = -1)
    /\ []EntriesKept
    /\ [][SecondBecomesFirst]_vars

\* a rehash past its first bucket with entries in both tables
C11_Witness ==
    /\ d.rehashidx >= 1
    /\ d.iterators = 0
    /\ d.ht[0].used >= 1
    /\ d.ht[1].used >= 2

\* the address of the table that holds the entry of k, NULL when none does
TableOfKey(dd, k) ==
    IF k \in HtKeys(dd.ht[0]) THEN dd.ht[0].table
    ELSE IF k \in HtKeys(dd.ht[1]) THEN dd.ht[1].table
    ELSE NULL

\* the buckets of ht[0] with an entry that a call taking the dict to dd2 has
\* moved to the other table
MovedChains(dd2) ==
    {i \in DOMAIN d.ht[0].buckets :
        \E k \in ChainKeys(d.ht[0].buckets[i]) :
            TableOfKey(dd2, k) \notin {NULL, d.ht[0].table}}

AtMostOneChain(dd2) == Cardinality(MovedChains(dd2)) <= 1

\* C12: one call of dictAdd, dictReplace, dictAddOrFind, dictFind, dictDelete,
\* dictUnlink or dictGetRandomKey moves the entries of at most one bucket of
\* ht[0] to ht[1].
C12_OneChainPerCall ==
    /\ AtMostOneChain(dictGetRandomKey(d).d)
    /\ \A k \in Keys :
          /\ AtMostOneChain(dictAdd(d, k, 1, dict_can_resize, 0).d)
          /\ AtMostOneChain(dictReplace(d, k, 1, dict_can_resize, 0).d)
          /\ AtMostOneChain(dictAddOrFind(d, k, dict_can_resize, 0).d)
          /\ AtMostOneChain(dictFind(d, k).d)
          /\ AtMostOneChain(dictDelete(d, k).d)
          /\ AtMostOneChain(dictUnlink(d, k).d)

\* a rehashing dict with two buckets of ht[0] still to move, the next one a
\* chain of two entries, which a dictFind moves
C12_Witness ==
    /\ dictIsRehashing(d)
    /\ d.iterators = 0
    /\ Len(d.ht[0].buckets[d.rehashidx]) = 2
    /\ d.ht[0].used >= 3
    /\ MovedChains(dictFind(d, 1).d) = {d.rehashidx}
    /\ dictFind(d, 1).d.ht[1].used = d.ht[1].used + 2

\* the least power of two that is at least n, and at least the initial size
LeastPower(p, n) ==
    /\ p >= n
    /\ p >= DICT_HT_INITIAL_SIZE
    /\ \E j \in 0..30 : p = 2 ^ j
    /\ (p > DICT_HT_INITIAL_SIZE => p \div 2 < n)

\* used >= size and (the resize flag is on or the quotient used/size > 5)
ExpansionDue ==
    /\ d.ht[0].used >= d.ht[0].size
    /\ dict_can_resize \/ d.ht[0].used >= 6 * d.ht[0].size

\* what the check before an insert, taking the dict to e, has done
ExpandedAsDue(e) ==
    IF dictIsRehashing(d) THEN e = d
    ELSE IF d.ht[0].size = 0
    THEN /\ ~dictIsRehashing(e)
         /\ e.ht[0].size = 4
         /\ e.ht[0].table # NULL
    ELSE IF ExpansionDue
    THEN /\ e.rehashidx = 0
         /\ e.ht[0] = d.ht[0]
         /\ LeastPower(e.ht[1].size, 2 * d.ht[0].used)
         /\ e.ht[1].used = 0
    ELSE e = d

\* the tables after a dictAdd of a key that is not stored, on a dict that is
\* not rehashing
InsertExpandedAsDue(k) ==
    (~dictIsRehashing(d) /\ live[k] = 0)
        => LET e == dictExpandIfNeeded(d, dict_can_resize, 0).d
               r == dictAdd(d, k, 1, dict_can_resize, 0)
           IN /\ r.ret = DICT_OK
              /\ r.d.rehashidx = e.rehashidx
              /\ r.d.ht[0].size = e.ht[0].size
              /\ r.d.ht[1].size = e.ht[1].size
              /\ dictSize(r.d) = dictSize(d) + 1

\* C13: the check made before an insert expands an unallocated table to 4
\* buckets; on a dict that is not rehashing it starts an expansion to the next
\* power of two >= 2*used exactly when used >= size and (the resize flag is on
\* or used/size > 5); on a rehashing dict it starts none.
C13_ExpansionTrigger ==
    /\ ExpandedAsDue(dictExpandIfNeeded(d, dict_can_resize, 0).d)
    /\ \A k \in LoadKeys : InsertExpandedAsDue(k)

\* the resize flag is off and the table of 4 buckets holds 6 entries a bucket:
\* the next insert starts the expansion to 64
C13_Witness ==
    /\ ~dict_can_resize
    /\ ~dictIsRehashing(d)
    /\ d.ht[0].size = DICT_HT_INITIAL_SIZE
    /\ d.ht[0].used = 6 * DICT_HT_INITIAL_SIZE
    /\ dictAdd(d, d.ht[0].used + 1, 1, dict_can_resize, 0).d.ht[1].size = 64

\* the return value, the entries and the callback calls of dictReplace(k, v)
\* with result r
ReplaceDone(r, k, v) ==
    /\ r.abort = ""
    /\ dictFind(r.d, k).ret = v
    /\ IF live[k] = 0
       THEN /\ r.ret = 1
            /\ dictSize(r.d) = dictSize(d) + 1
            /\ r.evts = <<SetValEvt(v)>>
       ELSE /\ r.ret = 0
            /\ dictSize(r.d) = dictSize(d)
            /\ Len(r.evts) = 2
            /\ r.evts[1] = SetValEvt(v)
            /\ r.evts[2] = FreeValEvt(live[k])

\* the value stored by the call is alive after it: every value had one
\* reference, or was not freed, before the call
AliveCounted(r, v) == CountedAfter(r.evts, [x \in Vals |-> 1])[v] >= 1
AlivePlain(r, v) == v \in PlainAfter(r.evts, Vals)

ReplaceAmended(r, k, v) ==
    /\ ReplaceDone(r, k, v)
    /\ AliveCounted(r, v)
    /\ v # live[k] => AlivePlain(r, v)

ReplaceOriginal(r, k, v) ==
    /\ ReplaceDone(r, k, v)
    /\ AliveCounted(r, v)
    /\ AlivePlain(r, v)

\* C14 (amended): dictReplace(k, v) returns 1 and adds the entry when k is
\* absent; when k is present it returns 0, the entry count is unchanged, the
\* value becomes v and the destructor of the old value is called once, after
\* v is stored.  The value stored is then alive when the values are reference
\* counted, or when v is not the old value.
C14_Amended ==
    \A k \in Keys, v \in Vals :
        ReplaceAmended(dictReplace(d, k, v, dict_can_resize, 0), k, v)

\* C14 (as stated): the same, and replacing a value by itself never leaves a
\* destroyed value stored.
C14_Original ==
    \A k \in Keys, v \in Vals :
        ReplaceOriginal(dictReplace(d, k, v, dict_can_resize, 0), k, v)

\* a rehashing dict where a key of ht[1] can be replaced by the value it has
\* and by another one, and an absent key can be added
C14_Witness ==
    /\ dictIsRehashing(d)
    /\ \E k \in HtKeys(d.ht[1]) :
          /\ live[k] = 2
          /\ dictReplace(d, k, 2, dict_can_resize, 0).ret = 0
          /\ dictReplace(d, k, 1, dict_can_resize, 0).ret = 0
    /\ \E k \in Keys :
          live[k] = 0 /\ dictReplace(d, k, 1, dict_can_resize, 0).ret = 1

\* how many times the callback op is called on x in evts
Calls(evts, op, x) ==
    Cardinality({i \in DOMAIN evts : evts[i] = [op |-> op, x |-> x]})

\* dictUnlink(k) with result r: the entry is detached and not destroyed
UnlinkDone(r, k) ==
    /\ r.abort = ""
    /\ r.evts = <<>>
    /\ k \notin DictKeys(r.d)
    /\ dictFind(r.d, k).ret = NULL
    /\ IF live[k] # 0
       THEN r.ret = k /\ dictSize(r.d) = dictSize(d) - 1
       ELSE r.ret = NULL /\ dictSize(r.d) = dictSize(d)

\* dictDelete(k) with result r: the entry is removed and destroyed once
DeleteDone(r, k) ==
    /\ r.abort = ""
    /\ k \notin DictKeys(r.d)
    /\ IF live[k] # 0
       THEN /\ r.ret = DICT_OK
            /\ dictSize(r.d) = dictSize(d) - 1
            /\ Len(r.evts) = 3
            /\ Calls(r.evts, "freekey", k) = 1
            /\ Calls(r.evts, "freeval", live[k]) = 1
            /\ Calls(r.evts, "zfree", k) = 1
       ELSE /\ r.ret = DICT_ERR
            /\ dictSize(r.d) = dictSize(d)
            /\ r.evts = <<>>

\* dictFreeUnlinkedEntry on an entry held: it has not been destroyed, and is
\* destroyed once
FreeUnlinkedDone(he) ==
    /\ he.freed = 0
    /\ Len(dictFreeUnlinkedEntry(he)) = 3
    /\ Calls(dictFreeUnlinkedEntry(he), "freekey", he.key) = 1
    /\ Calls(dictFreeUnlinkedEntry(he), "freeval", he.val) = 1
    /\ Calls(dictFreeUnlinkedEntry(he), "zfree", he.key) = 1

\* C15: dictUnlink detaches the entry and calls no destructor, and dictFind
\* then returns NULL; the destructors of the entry run once, in
\* dictFreeUnlinkedEntry; dictDelete runs both destructors once; no entry is
\* destroyed twice or while linked.
C15_UnlinkThenFree ==
    /\ aborted \notin {"double free", "linked entry freed"}
    /\ dictFreeUnlinkedEntry(NoEntry) = <<>>
    /\ \A i \in DOMAIN unlinked : FreeUnlinkedDone(unlinked[i])
    /\ \A k \in IterKeys :
          /\ UnlinkDone(dictUnlink(d, k), k)
          /\ DeleteDone(dictDelete(d, k), k)

\* two entries unlinked and not freed yet, the key of one stored again, in
\* the middle of a rehash
C15_Witness ==
    /\ Len(unlinked) = 2
    /\ unlinked[1].key \in DictKeys(d)
    /\ unlinked[2].key \notin DictKeys(d)
    /\ dictIsRehashing(d)
    /\ d.ht[1].used >= 1

\* C16: after any sequence of zipmapSet and zipmapDel from zipmapNew,
\* zipmapGet of a key returns 1 with exactly the length and the bytes most
\* recently set for it when the key was set and not deleted afterwards, and 0
\* otherwise; zipmapExists has the same truth value.
C16_GetReturnsLastSet ==
    \A key \in ZKeys :
        /\ zipmapGet(zmap, key).ret = (IF key \in DOMAIN zset THEN 1 ELSE 0)
        /\ zipmapExists(zmap, key) = zipmapGet(zmap, key).ret
        /\ key \in DOMAIN zset =>
              /\ zipmapGet(zmap, key).vlen = Len(zset[key])
              /\ zipmapGet(zmap, key).value = zset[key]
\* a get that returns the value a key was given last, in an entry with free
\* bytes, after another key was deleted
C16_Witness ==
    /\ zout.op = "get" /\ zout.ret = 1 /\ zout.key = <<97, 98>>
    /\ zout.value = <<1, 2, 3, 4, 5, 6, 7, 8>>
    /\ DOMAIN zset = {<<97, 98>>, <<98>>}
    /\ At(zmap, zipmapLookup(zmap, <<97, 98>>) + 4) > 0

\* the offsets of the entries of a zipmap, from p on
RECURSIVE EntriesFrom(_, _)
EntriesFrom(zm, p) ==
    IF At(zm, p) = ZIPMAP_END THEN <<>>
    ELSE <<p>> \o EntriesFrom(zm, p + zipmapRawEntryLength(zm, p))
Entries(zm) == EntriesFrom(zm, 1)
\* the free byte of the entry at p
FreeOf(zm, p) ==
    At(zm, p + zipmapRawKeyLength(zm, p)
         + ZIPMAP_LEN_BYTES(zipmapDecodeLength(zm, p + zipmapRawKeyLength(zm, p))))
RECURSIVE FreeBytesSmall(_, _)
FreeBytesSmall(zm, p) ==
    \/ At(zm, p) = ZIPMAP_END
    \/ /\ FreeOf(zm, p) <= ZIPMAP_VALUE_MAX_FREE
       /\ FreeBytesSmall(zm, p + zipmapRawEntryLength(zm, p))

\* C17: after any zipmapSet the free byte of every entry of the zipmap is at
\* most ZIPMAP_VALUE_MAX_FREE (4).
C17_FreeAtMostMax == FreeBytesSmall(zmap, 1)
\* a set has left three free bytes in an entry that is followed by another
C17_Witness ==
    /\ zout.op = "set" /\ zout.update = 1
    /\ Len(Entries(zmap)) = 2
    /\ FreeOf(zmap, Entries(zmap)[1]) = 3

\* the number of bytes that hold a length
EncodedLen(l) == IF l < 254 THEN 1 ELSE 5
\* the zipmap without its end byte, with the count byte c
Body(zm, c) == [i \in 1..(Len(zm) - 1) |-> IF i = 1 THEN c ELSE zm[i]]
\* r is what zipmapSet(zm, key, val) returns for a key that is absent
InsertAppends(zm, key, val, r) ==
    /\ Len(r.zm) = Len(zm) + EncodedLen(Len(key)) + Len(key)
                           + EncodedLen(Len(val)) + 1 + Len(val)
    /\ r.zm[1] = (IF zm[1] < 254 THEN zm[1] + 1 ELSE zm[1])
    /\ r.zm = Body(zm, r.zm[1])
              \o (IF Len(key) < 254 THEN <<Len(key)>>
                  ELSE <<254, Len(key) % 256, Len(key) \div 256, 0, 0>>)
              \o key
              \o (IF Len(val) < 254 THEN <<Len(val)>>
                  ELSE <<254, Len(val) % 256, Len(val) \div 256, 0, 0>>)
              \o <<0>> \o val \o <<255>>
    /\ r.update = 0
FooHelloBytes ==
    <<2, 3>> \o Foo \o <<3, 0>> \o Bar \o <<5>> \o Hello \o <<5, 0>> \o World
    \o <<255>>

\* C18: zipmapSet of a key that is absent grows the zipmap by exactly
\* encoded_len(klen) + klen + encoded_len(vlen) + 1 + vlen bytes, writes the
\* new entry with free = 0 right before the end byte after all the entries
\* there were, leaves those byte-identical, increments the count byte when it
\* is below 254 and sets *update to 0; zipmapNew, set(foo, bar),
\* set(hello, world) gives 02 03 foo 03 00 bar 05 hello 05 00 world FF.
C18_InsertAppends ==
    /\ \A kv \in ZLongSets :
          kv[1] \notin DOMAIN zset =>
              InsertAppends(zmap, kv[1], kv[2], zipmapSet(zmap, kv[1], kv[2]))
    /\ zipmapSet(zipmapSet(zipmapNew, Foo, Bar).zm, Hello, World).zm
         = FooHelloBytes
\* the long key has been added with the long value after foo and hello, and
\* the zipmap of the example has been built
C18_Witness ==
    /\ zout.op = "set" /\ zout.update = 0 /\ zout.key = LongKey
    /\ DOMAIN zset = ZLongKeys /\ zset[LongKey] = LongVal
    /\ zipmapDel(zmap, LongKey).zm = [FooHelloBytes EXCEPT ![1] = 2]

\* r is what zipmapSet(zm, key, val) returns for the key of the entry at p,
\* whose length with its free bytes is T, when the new entry needs R bytes
UpdateInPlace(zm, p, T, R, r) ==
    /\ r.update = 1
    /\ r.zm[1] = zm[1] /\ Len(Entries(r.zm)) = Len(Entries(zm))
    /\ R > T => Len(r.zm) = Len(zm) + (R - T) /\ FreeOf(r.zm, p) = 0
    /\ (0 <= T - R /\ T - R < 4) =>
          Len(r.zm) = Len(zm) /\ FreeOf(r.zm, p) = T - R
    /\ T - R >= 4 => Len(r.zm) = Len(zm) - (T - R) /\ FreeOf(r.zm, p) = 0
UpdateKeepsPlace(zm, key, val, r) ==
    /\ zipmapLookup(r.zm, key) = zipmapLookup(zm, key)
    /\ UpdateInPlace(zm, zipmapLookup(zm, key),
                     zipmapRawEntryLength(zm, zipmapLookup(zm, key)),
                     EncodedLen(Len(key)) + Len(key) + EncodedLen(Len(val))
                         + 1 + Len(val), r)
\* a value of 10 bytes replaced by one of 8 bytes, then by one of 2 bytes
TenEightTwo(zm, key, r8, r2) ==
    /\ Len(r8.zm) = Len(zm) /\ FreeOf(r8.zm, zipmapLookup(zm, key)) = 2
    /\ Len(r2.zm) = Len(zm) - 8 /\ FreeOf(r2.zm, zipmapLookup(zm, key)) = 0
Val2 == <<255, 254>>
Val8 == <<1, 2, 3, 4, 5, 6, 7, 8>>
Val10 == <<9, 9, 9, 9, 9, 9, 9, 9, 9, 9>>

\* C19: zipmapSet of a key that is present, with T the length of its entry
\* (free bytes included) and R the length required: *update is 1, the count
\* and the position of the entry are kept; if R > T the zipmap grows by R - T
\* and free is 0; if 0 <= T - R < 4 the length is kept and free is T - R; if
\* T - R >= 4 the zipmap shrinks by T - R and free is 0.  A value of 10 bytes
\* replaced by 8 bytes keeps the length with free = 2, and replaced then by 2
\* bytes (8 bytes left over) the zipmap shrinks.
C19_UpdateInPlace ==
    \A key \in DOMAIN zset :
        /\ \A val \in ZSlackVals :
              UpdateKeepsPlace(zmap, key, val, zipmapSet(zmap, key, val))
        /\ (zset[key] = Val10 /\ FreeOf(zmap, zipmapLookup(zmap, key)) = 0) =>
              TenEightTwo(zmap, key, zipmapSet(zmap, key, Val8),
                          zipmapSet(zipmapSet(zmap, key, Val8).zm, key, Val2))
\* an update has shrunk the first of two entries to a value of 2 bytes with no
\* free byte, and the second entry has its 8 bytes and 2 free bytes
C19_Witness ==
    /\ zout.op = "set" /\ zout.update = 1 /\ zout.key = <<97, 98>>
    /\ zset = (<<97, 98>> :> Val2 @@ <<97>> :> Val8)
    /\ zipmapLookup(zmap, <<97, 98>>) = 1
    /\ FreeOf(zmap, 1) = 0 /\ FreeOf(zmap, zipmapLookup(zmap, <<97>>)) = 2

\* the count byte tells the number n of entries, and zipmapLen (r is what it
\* returns) tells it in every case
CountByteExact(zm, n, r) ==
    /\ zm[1] < 254 => zm[1] = n
    /\ r.len = n
    /\ r.zm[1] = (IF zm[1] < 254 THEN zm[1] ELSE IF n < 254 THEN n ELSE 254)
    /\ Len(r.zm) = Len(zm) /\ \A i \in 2..Len(zm) : r.zm[i] = zm[i]
\* a count byte of 254 is kept by a set and by a del
CountByteSticks ==
    (zmap[1] = 254 /\ zout'.op \in {"set", "del"}) => zmap'[1] = 254

\* C20: a count byte below 254 is the exact number of entries; once it is 254
\* neither an insert nor a delete changes it; zipmapLen returns the exact
\* number of entries in every case, and stores it in the count byte when it
\* has counted fewer than 254.
C20_CountByte ==
    /\ []CountByteExact(zmap, Cardinality(DOMAIN zset), zipmapLen(zmap))
    /\ [][CountByteSticks]_vars
\* zipmapLen has counted 255 entries under a count byte of 254
C20_Witness ==
    /\ zout.op = "len" /\ zout.len = 255 /\ zmap[1] = 254
    /\ Cardinality(DOMAIN zset) = 255

\* r is what zipmapDel(zm, key) returns for the key of the entry at p, whose
\* length with its free bytes is T
DelRemovesEntry(zm, p, T, r) ==
    /\ r.deleted = 1
    /\ Len(r.zm) = Len(zm) - T
    /\ \A i \in 2..Len(r.zm) :
          r.zm[i] = (IF i - 1 < p THEN zm[i] ELSE zm[i + T])
DelOfKey(zm, key, p, r) ==
    IF key \in DOMAIN zset
    THEN p # NoPtr /\ DelRemovesEntry(zm, p, zipmapRawEntryLength(zm, p), r)
    ELSE r.deleted = 0 /\ r.zm = zm

\* C21: zipmapDel of a present key removes exactly its entry: the zipmap
\* shrinks by the length of the entry with its free bytes, the other entries
\* keep their bytes and their order, *deleted is 1; zipmapDel of an absent
\* key leaves every byte as it is and sets *deleted to 0.
C21_DelRemovesOneEntry ==
    \A key \in ZKeys :
        DelOfKey(zmap, key, zipmapLookup(zmap, key), zipmapDel(zmap, key))
\* an entry has been deleted from a zipmap of three, in front of an entry that
\* has free bytes
C21_Witness ==
    /\ zout.op = "del" /\ zout.deleted = 1
    /\ Len(Entries(zmap)) = 2 /\ FreeOf(zmap, Entries(zmap)[2]) = 2
    /\ zout.key = <<97, 98>> /\ zipmapLookup(zmap, <<98>>) = 1

\* a list whose len nodes are ns
WellFormedNodes(st, l, ns) ==
    /\ Len(ns) = st.list[l].len
    /\ (st.list[l].len = 0) <=> (st.list[l].head = NULL /\ st.list[l].tail = NULL)
    /\ (st.list[l].head = NULL) <=> (st.list[l].tail = NULL)
    /\ st.list[l].head # NULL =>
          /\ st.node[st.list[l].head].prev = NULL
          /\ st.node[st.list[l].tail].next = NULL
          /\ ns[Len(ns)] = st.list[l].tail
    /\ \A i \in 1..Len(ns) :
          /\ st.node[ns[i]].alloc
          /\ st.node[ns[i]].next # NULL =>
                st.node[st.node[ns[i]].next].prev = ns[i]
WellFormed(st, l) == WellFormedNodes(st, l, ListNodes(st, l))

\* C22: after any sequence of listAddNodeHead, listAddNodeTail,
\* listInsertNode before or after any node, listDelNode, listRotate, listJoin
\* of two distinct lists and listEmpty, each list is well formed: head.prev
\* and tail.next are NULL, next from head visits exactly len nodes and ends
\* at tail, n.next.prev = n, and len = 0 iff head = tail = NULL.
C22_ListWellFormed ==
    /\ WellFormed(lst, ListL) /\ WellFormed(lst, ListO)
    /\ NodeSet(lst, ListL) \cap NodeSet(lst, ListO) = {}
\* a join has made a list of four nodes, the other list is empty
C22_Witness ==
    /\ lout.op = "join" /\ lst.list[ListL].len = 4 /\ lst.list[ListO].len = 0
    /\ ListNodes(lst, ListL) = <<3, 1, 4, 2>>

Reverse(ns) == [i \in 1..Len(ns) |-> ns[Len(ns) + 1 - i]]
\* the nodes of the list when the iterator was made, in its direction
InOrder(it) ==
    IF it.direction = AL_START_HEAD THEN it.orig ELSE Reverse(it.orig)
\* the nodes returned so far are the first ones in order
VisitedInOrder(it) ==
    /\ Len(it.seen) <= Len(it.orig)
    /\ it.seen = SubSeq(InOrder(it), 1, Len(it.seen))

\* C23: iterating a list with listNext in either direction and calling
\* listDelNode on each node just returned visits every node of the original
\* list exactly once, in order, and ends with an empty list; listNext never
\* reads a field of a node that has been deleted.
C23_DeleteWhileIterating ==
    liter # NoListIter =>
        /\ ~liter.readFreed
        /\ VisitedInOrder(liter)
        /\ lout.op \in {"iter", "del"} =>
              lst.list[ListL].len = Len(liter.orig) - Len(liter.seen)
        /\ (lout.op = "next" /\ lout.ret = NULL) =>
              /\ liter.seen = InOrder(liter)
              /\ lst.list[ListL].len = 0 /\ lst.list[ListL].head = NULL
              /\ lst.list[ListL].tail = NULL
\* listNext has returned NULL after four nodes were returned from the tail
\* on and deleted
C23_Witness ==
    /\ liter # NoListIter /\ liter.direction = AL_START_TAIL
    /\ lout.op = "next" /\ lout.ret = NULL
    /\ Len(liter.seen) = 4 /\ FreeAddrs(lst) = NodeAddrs

\* the values of a list from head to tail
ListValues(st, l) ==
    [i \in 1..Len(ListNodes(st, l)) |-> st.node[ListNodes(st, l)[i]].value]
\* the last element in front of the others
Rotated(xs) ==
    IF Len(xs) <= 1 THEN xs
    ELSE <<xs[Len(xs)]>> \o SubSeq(xs, 1, Len(xs) - 1)
RECURSIVE RotateTimes(_, _, _)
RotateTimes(st, l, n) ==
    IF n = 0 THEN st ELSE RotateTimes(listRotate(st, l), l, n - 1)
RotateMovesTail ==
    lout'.op = "rotate" =>
        /\ ListNodes(lst', ListL) = Rotated(ListNodes(lst, ListL))
        /\ ListValues(lst', ListL) = Rotated(ListValues(lst, ListL))
        /\ lst'.list[ListL].len = lst.list[ListL].len
        /\ lst.list[ListL].len <= 1 => lst' = lst
RotateAround ==
    /\ ListNodes(RotateTimes(lst, ListL, lst.list[ListL].len), ListL)
           = ListNodes(lst, ListL)
    /\ ListValues(RotateTimes(lst, ListL, lst.list[ListL].len), ListL)
           = ListValues(lst, ListL)

\* C24: listRotate on a list [x1, ..., xn] with n >= 2 yields
\* [xn, x1, ..., x(n-1)] with the length unchanged; on a list of length 0 or
\* 1 it changes nothing; applying it n times restores the original order.
C24_RotateMovesTail == []RotateAround /\ [][RotateMovesTail]_vars
\* [1, 2, 3, 4] has been rotated to [4, 1, 2, 3]
C24_Witness ==
    /\ lout.op = "rotate"
    /\ ListValues(lst, ListL) = <<4, 1, 2, 3>>
    /\ lst.node[lst.list[ListL].head].value = 4
    /\ lst.node[lst.list[ListL].tail].value = 3

\* a failed listAddNodeHead, listAddNodeTail or listInsertNode returns NULL
\* and leaves every list and node as it was
AddFailureKeepsList ==
    (lout'.op \in {"addhead", "addtail", "insert"} /\ lout'.ret = NULL) =>
        lst' = lst
\* listDup leaves the list structure, the nodes and the value pointers of the
\* original as they were
DupKeepsStructure ==
    lout'.op = "dup" =>
        /\ lst'.list[ListL] = lst.list[ListL]
        /\ \A n \in NodeSet(lst, ListL) : lst'.node[n] = lst.node[n]
\* the values of the original that listDup handed to the free method
DupFreed ==
    {lst.node[n].value : n \in NodeSet(lst, ListL)}
        \cap (lst'.freed \ lst.freed)
DupKeepsOriginal ==
    lout'.op = "dup" => DupKeepsStructure /\ DupFreed = {}
C25_FailuresKeepStructure ==
    [][AddFailureKeepsList /\ DupKeepsStructure]_vars

\* C25: when the node allocation fails in listAddNodeHead, listAddNodeTail
\* or listInsertNode the call returns NULL and the list is unchanged; listDup
\* returns NULL on allocation or dup-callback failure, and the original list
\* is never modified by listDup, whether it succeeds or fails.
C25_DupKeepsOriginal ==
    [][AddFailureKeepsList /\ DupKeepsOriginal]_vars
\* listDup has failed and a value held by a node of the original is freed
C25_Witness ==
    /\ lout.op = "dup" /\ lout.ret = NULL
    /\ \E n \in NodeSet(lst, ListL) : lst.node[n].value \in lst.freed

\* l holds its former nodes followed by those of o, o is empty
Joined(l, o) ==
    /\ l # o
    /\ lst' = listJoin(lst, l, o)
    /\ ListNodes(lst', l) = ListNodes(lst, l) \o ListNodes(lst, o)
    /\ ListValues(lst', l) = ListValues(lst, l) \o ListValues(lst, o)
    /\ lst'.list[l].len = lst.list[l].len + lst.list[o].len
    /\ lst'.list[l].len = Len(ListNodes(lst', l))
    /\ lst'.list[l].tail =
           IF lst'.list[l].len = 0 THEN NULL
           ELSE ListNodes(lst', l)[lst'.list[l].len]
    /\ lst'.list[o].head = NULL /\ lst'.list[o].tail = NULL
    /\ lst'.list[o].len = 0 /\ lst'.list[o].alloc
JoinAppends ==
    lout'.op = "join" =>
        \E l \in {ListL, ListO}, o \in {ListL, ListO} : Joined(l, o)

\* C26: listJoin(l, o) for two distinct lists leaves l holding l's former
\* nodes followed by o's former nodes in their original order, with
\* len(l) the sum of the two lengths, and leaves o empty but valid; this
\* also when l or o is empty.
C26_JoinAppends == [][JoinAppends]_vars
\* two lists of two nodes each have been joined
C26_Witness ==
    /\ lout.op = "join"
    /\ lst.list[ListO].len = 4 /\ lst.list[ListL].len = 0
    /\ ListNodes(lst, ListO) = <<2, 1, 3, 4>>

\* the byte at index len of the buffer is written and is 0
Terminated(s) == Len(s.buf) > sdslen(s) /\ s.buf[sdslen(s) + 1] = 0
CatAppends ==
    sout'.op = "cat" =>
        IF sout'.null THEN sx' = sx
        ELSE /\ sdslen(sx') = sdslen(sx) + sout'.len
             /\ SdsBytes(sx') = SdsBytes(sx) \o SubSeq(sout'.t, 1, sout'.len)
             /\ Terminated(sx')

\* C27: sdscatlen(s, t, n) returns a string whose length is the old length
\* plus n, whose payload is the old payload followed by the n bytes of t,
\* and whose byte at index length is 0, whether or not it had to reallocate
\* or change header variant.
C27_CatAppends == [][CatAppends]_vars
\* "bar" was appended to the SDS_TYPE_5 string "fo", which took a new header
C27_Witness ==
    /\ sout.op = "cat" /\ ~sout.null /\ sout.len = 3
    /\ SdsBytes(sx) = <<102, 111, 98, 97, 114>>
    /\ sx.type = SDS_TYPE_8 /\ sx.alloc = 10

\* the smallest header variant but SDS_TYPE_5 whose alloc field holds n
SmallestHeader(n) ==
    IF n <= 255 THEN SDS_TYPE_8
    ELSE IF n <= 65535 THEN SDS_TYPE_16 ELSE SDS_TYPE_32
Capacity(len, addlen) ==
    IF len + addlen < 1024 * 1024 THEN 2 * (len + addlen)
    ELSE len + addlen + 1024 * 1024
MakesRoom ==
    sout'.op = "room" =>
        IF sout'.null THEN sx' = sx
        ELSE /\ sdslen(sx') = sdslen(sx)
             /\ SdsBytes(sx') = SdsBytes(sx)
             /\ Terminated(sx')
             /\ sdsavail(sx') >= sout'.addlen
             /\ IF sdsavail(sx) >= sout'.addlen THEN sx' = sx
                ELSE /\ sdsalloc(sx') = Capacity(sdslen(sx), sout'.addlen)
                     /\ sx'.type = SmallestHeader(sdsalloc(sx'))

\* C28: sdsMakeRoomFor(s, addlen) leaves the length and the payload
\* unchanged and guarantees available >= addlen; it returns s untouched when
\* available >= addlen already, otherwise sets the capacity to
\* 2 * (length + addlen) if length + addlen < 1 MiB, else to
\* length + addlen + 1 MiB, using the smallest header variant that can hold
\* that capacity but never SDS_TYPE_5.
C28_MakesRoom == [][MakesRoom]_vars
\* room was made for 1 MiB - 3 bytes after a string of 3 bytes
C28_Witness ==
    /\ sout.op = "room" /\ ~sout.null
    /\ sout.addlen = SDS_MAX_PREALLOC - 3
    /\ sdslen(sx) = 3 /\ sx.alloc = 2 * SDS_MAX_PREALLOC
    /\ sx.type = SDS_TYPE_32

\* the assertion as stated: on available and length alone
IncrAllowed(s, incr) ==
    \/ incr >= 0 /\ incr <= sdsavail(s)
    \/ incr < 0 /\ sdslen(s) >= -incr
IncrLenChecked ==
    sout'.op = "incr" =>
        /\ sout'.aborted = ~IncrAllowed(sx, sout'.incr)
        /\ ~sout'.aborted =>
              /\ sdslen(sx') = sdslen(sx) + sout'.incr
              /\ Terminated(sx')
\* the statement holds for the header variants other than SDS_TYPE_5
C29_IncrLenCheckedBut5 ==
    [][sx.type # SDS_TYPE_5 => IncrLenChecked]_vars

\* C29: sdsIncrLen(s, delta) asserts delta <= available(s) when delta >= 0
\* and length(s) >= |delta| when delta is negative, for every header variant
\* including SDS_TYPE_5 (whose available is 0): it aborts exactly when the
\* condition is violated, and otherwise sets the length to length + delta and
\* writes 0 at the new end.
C29_IncrLenChecked == [][IncrLenChecked]_vars
\* sdsIncrLen(s, 0) has aborted on a SDS_TYPE_5 string
C29_Witness ==
    /\ sout.op = "incr" /\ sout.aborted /\ sout.incr = 0
    /\ sx.type = SDS_TYPE_5
\* sdsIncrLen(s, 1) on a SDS_TYPE_5 string has written outside its buffer
C29_WitnessGrow ==
    /\ sout.op = "incr" /\ ~sout.aborted /\ sout.incr = 1 /\ sout.oob
    /\ sx.type = SDS_TYPE_5

\* the offsets of the byte string x at which sep occurs
Occurrences(x, sep) ==
    {j \in 0..(Len(x) - Len(sep)) : SubSeq(x, j + 1, j + Len(sep)) = sep}
NoElementContains(argv, sep) ==
    \A i \in DOMAIN argv : Occurrences(SdsBytes(argv[i]), sep) = {}
\* the offset in the joined string of the separator after element k
RECURSIVE SepOffset(_, _, _)
SepOffset(argv, seplen, k) ==
    IF k = 0 THEN -seplen
    ELSE SepOffset(argv, seplen, k - 1) + seplen + sdslen(argv[k])
SepOffsets(argv, seplen) ==
    {SepOffset(argv, seplen, k) : k \in 1..(Len(argv) - 1)}
\* the tokens are the elements
SameTokens(argv, split) ==
    /\ ~split.null
    /\ split.count = Len(argv)
    /\ Len(split.tokens) = Len(argv)
    /\ \A i \in DOMAIN argv :
          /\ SdsBytes(split.tokens[i]) = SdsBytes(argv[i])
          /\ sdslen(split.tokens[i]) = sdslen(argv[i])

SplitLenRefuses ==
    (sout.op = "split" /\ Len(sout.sep) < 1) => sout.split.null
\* a line with unbalanced quotes or a closing quote before a non-space
Malformed(line) ==
    line \in {<<34, 97, 34, 98>>, <<34, 97>>, <<39, 97, 39, 98>>,
               <<97, 32, 39, 98>>}
SplitArgsRefuses ==
    sout.op = "args" =>
        /\ sout.args.null = Malformed(sout.line)
        /\ sout.args.null => sout.args.argc = 0
C31_SplitArgsCountZero == SplitLenRefuses /\ SplitArgsRefuses

\* C31: on malformed input the split functions return NULL with the output
\* count set to 0: sdssplitlen with a separator of length < 1 returns NULL
\* and sets *count to 0, and sdssplitargs on a line with unbalanced quotes
\* (or a closing quote followed by a non-space character) returns NULL and
\* sets *argc to 0.
C31_NullWithCountZero ==
    /\ C31_SplitArgsCountZero
    /\ (sout.op = "split" /\ Len(sout.sep) < 1) => sout.split.count = 0
\* sdssplitlen has returned NULL for an empty separator with *count still 7
C31_Witness ==
    /\ sout.op = "split" /\ sout.sep = <<>> /\ sout.split.null
    /\ sout.split.count = 7

\* C32: for every byte string x (any bytes, including 0, quote, backslash,
\* whitespace and non-printable bytes, and the empty string), sdssplitargs
\* applied to sdscatrepr(empty, x) succeeds and returns exactly one argument
\* whose bytes equal x.
C32_ReprRoundTrip ==
    sout.op = "reprargs" =>
        /\ ~sout.args.null
        /\ sout.args.argc = 1
        /\ SdsBytes(sout.args.vector[1]) = sout.x
\* the representation of a 0 byte, a newline and letters has been parsed
C32_Witness ==
    /\ sout.op = "reprargs"
    /\ sout.x = <<7, 10, 0, 102, 111, 111, 13>>
    /\ SdsBytes(sout.repr) =
           <<34, 92, 97, 92, 110, 92, 120, 48, 48, 102, 111, 111, 92, 114, 34>>
    /\ sout.args.argc = 1

\* the calls whose every allocation is tested before its result is used
C33_TestedCalls ==
    sout.op \in {"cpy", "growzero", "removefree"} => ~sout.segv

\* C33: every operation that may allocate (sdsnewlen, sdsMakeRoomFor,
\* sdsRemoveFreeSpace, sdsgrowzero, sdscatlen, sdscpylen, sdscatfmt,
\* sdscatrepr, sdssplitargs) returns a null handle when the allocator returns
\* null at any allocation point, without dereferencing the null result, and
\* leaves the input handle valid with unchanged length and payload.
C33_NullOnFailure ==
    sout.op \in {"newnull", "cpy", "growzero", "removefree", "catfmt",
                 "catrepr", "argsfail"} =>
        /\ ~sout.segv
        /\ sout.op = "argsfail" => ~sout.nullarg
\* sdscatrepr has passed the NULL of a failed append to the next append
C33_Witness == sout.op = "catrepr" /\ sout.segv
C33_WitnessNew == sout.op = "newnull" /\ sout.segv
C33_WitnessFmt == sout.op = "catfmt" /\ sout.segv
C33_WitnessArgs == sout.op = "argsfail" /\ sout.segv

\* length <= capacity, capacity + 1 bytes allocated, payload[length] = 0
SdsSound(s) ==
    /\ sdslen(s) <= sdsalloc(s)
    /\ s.size >= sdsalloc(s) + 1
    /\ Terminated(s)
\* every call but sdsIncrLen on a SDS_TYPE_5 string keeps a sound string sound
C34_KeptButIncr5 ==
    [][(sx # NoSds /\ SdsSound(sx)
        /\ ~(sout'.op = "incr" /\ sx.type = SDS_TYPE_5))
       => SdsSound(sx')]_vars

\* C34: after any sequence of non-aborting operations (sdsnewlen, sdscatlen,
\* sdscpylen, sdsgrowzero, sdsMakeRoomFor, sdsRemoveFreeSpace, sdsIncrLen,
\* sdstrim, sdsrange, sdsclear) the string satisfies length <= capacity, the
\* allocation holds at least capacity + 1 payload bytes, and
\* payload[length] = 0.
C34_SoundString == sx # NoSds => SdsSound(sx)
\* sdsIncrLen(s, 1) has not aborted on a SDS_TYPE_5 string of 3 bytes in an
\* allocation of 4 payload bytes
C34_Witness ==
    /\ sout.op = "incr" /\ ~sout.aborted /\ sout.incr = 1
    /\ sx.type = SDS_TYPE_5 /\ sdslen(sx) = 4 /\ sx.size = 4

\* a safe iterator past its first dictNext, not released, is counted
IterRunning ==
    iter # NoIter /\ iter.safe /\ Advanced(iter) /\ d.iterators > 0
\* the step has moved no entry from ht[0] to ht[1] and has not made ht[1]
\* the new ht[0]
NoMigration ==
    /\ HtKeys(d.ht[0]) \cap HtKeys(d'.ht[1]) = {}
    /\ ~(dictIsRehashing(d) /\ ~dictIsRehashing(d') /\ d'.ht[0].size # 0)
\* the step is not a direct call of dictRehash that changes the dict
NotRehashCall == \A n \in 1..MaxRehashN : d' # dictRehash(d, n).d
C35_NoMigrationButRehash ==
    [][(IterRunning /\ NotRehashCall) => NoMigration]_vars

\* C35: while a safe iterator that has been advanced is not yet released
\* (iterators > 0), no dict operation, including a direct call of dictRehash
\* or dictRehashMilliseconds, moves an entry from ht[0] to ht[1] or swaps the
\* two tables.
C35_NoMigrationWhileIterating == [][IterRunning => NoMigration]_vars
\* a safe iterator is running on a rehashing dict, and dictRehash(d, 1)
\* moves an entry to ht[1]
C35_Witness ==
    /\ IterRunning
    /\ aborted = ""
    /\ dictIsRehashing(d)
    /\ HtKeys(d.ht[0]) \cap HtKeys(dictRehash(d, 1).d.ht[1]) # {}

\* iterators is the number of safe iterators past their first dictNext
Counted ==
    d.iterators = IF iter # NoIter /\ iter.safe /\ Advanced(iter) THEN 1 ELSE 0
\* every step but a dictEmpty keeps the count right
C36_CountedButEmpty ==
    [][(Counted /\ d' # dictEmpty(d)) => Counted']_vars

\* C36: the running-iterator count of a dict always equals the number of safe
\* iterators on it that have been advanced at least once and not yet
\* released; it never underflows, under any interleaving with other dict
\* operations including dictEmpty.
C36_CountsRunningIterators == Counted
\* the safe iterator was released after a dictEmpty: the count has wrapped
C36_Witness == iter = NoIter /\ d.iterators = ULONG_MAX

\* the end of the buckets of ht[0] a call taking the dict to dd2 has looked
\* at: rehashidx, or past the last chain when the rehash is finished
RehashEnd(dd2) ==
    IF dd2.rehashidx # -1 THEN dd2.rehashidx
    ELSE CHOOSE i \in 0..d.ht[0].size :
            /\ \A j \in i..(d.ht[0].size - 1) : d.ht[0].buckets[j] = <<>>
            /\ i > d.rehashidx => d.ht[0].buckets[i - 1] # <<>>
SkippedBuckets(dd2) ==
    {i \in d.rehashidx..(RehashEnd(dd2) - 1) : d.ht[0].buckets[i] = <<>>}
RehashDone(r, n) ==
    /\ r.abort = ""
    /\ Cardinality(MovedChains(r.d)) <= n
    /\ Cardinality(SkippedBuckets(r.d)) <= 10 * n
    /\ r.ret \in {0, 1}
    /\ r.ret = 0 <=> r.d.rehashidx = -1
    /\ r.ret = 1 <=> (dictIsRehashing(r.d) /\ r.d.ht[0].used > 0)

\* C37: a call dictRehash(d, n) on a rehashing dict migrates at most n bucket
\* chains and skips at most 10*n empty buckets before returning; it returns
\* 0 exactly when the dict is not rehashing on return (rehashidx = -1) and 1
\* exactly when entries remain to be moved.
C37_RehashBounded ==
    dictIsRehashing(d) =>
        \A n \in 1..MaxRehashN : RehashDone(dictRehash(d, n), n)
\* dictRehash(d, 1) has returned after 10 empty buckets of a table of 32,
\* the entry in bucket 31 still to be moved
C37_Witness ==
    /\ d.rehashidx = 10
    /\ d.ht[0].size = 32
    /\ d.ht[0].used = 1
    /\ d.ht[1].used = 0
    /\ dictRehash(d, 1).ret = 1
    /\ dictRehash(d, 1).d.rehashidx = 20
    /\ dictRehash(d, 2).d.ht[1].used = 0
    /\ dictRehash(dictRehash(d, 2).d, 1).ret = 0

\* C38: in every reachable state with rehashidx >= 0 and ht[0].used > 0,
\* rehashidx < ht[0].size and ht[0] has a non-empty bucket at some index
\* >= rehashidx; hence the assertion in dictRehash never fails and its
\* empty-bucket scan never reads past the end of ht[0].table, after any
\* sequence of inserts, deletes, unlinks and partial rehashes (including
\* rehash calls that stop early on the empty-bucket limit).
C38_NextChainInRange ==
    /\ aborted \notin {"assert rehashidx", "read past table"}
    /\ (d.rehashidx >= 0 /\ d.ht[0].used > 0) =>
          /\ d.rehashidx < d.ht[0].size
          /\ \E i \in d.rehashidx..(d.ht[0].size - 1) :
                d.ht[0].buckets[i] # <<>>
\* two dictRehash calls have stopped on the empty-bucket limit in a table of
\* 64 whose only entry is in bucket 31, after key 1 was unlinked
C38_Witness ==
    /\ d.rehashidx = 20
    /\ d.ht[0].size = 64
    /\ d.ht[0].used = 1
    /\ d.ht[0].buckets[31] # <<>>
    /\ Len(unlinked) = 1

\* the chains of both tables hold one entry for every key stored
NoKeyTwice ==
    HtCount(d.ht[0]) + HtCount(d.ht[1]) = Cardinality(DictKeys(d))
\* dictAdd of a stored key returns DICT_ERR and leaves the entries and the
\* value of the key as they are
AddOfStoredKey(r, k) ==
    /\ r.abort = ""
    /\ r.ret = DICT_ERR
    /\ DictKeys(r.d) = DictKeys(d)
    /\ HtCount(r.d.ht[0]) + HtCount(r.d.ht[1])
          = HtCount(d.ht[0]) + HtCount(d.ht[1])
    /\ dictFind(r.d, k).ret = live[k]

\* C39: in every reachable state of a dict no key is stored twice: across
\* the chains of ht[0] and ht[1] together there is at most one entry per
\* key, also when keys are added, replaced or re-added during an incremental
\* rehash; dictAdd of a key that is already present returns DICT_ERR and
\* adds no entry.
C39_NoKeyTwice ==
    /\ NoKeyTwice
    /\ \A k \in DictKeys(d), v \in Vals :
          AddOfStoredKey(dictAdd(d, k, v, dict_can_resize, 0), k)
\* a rehash in progress with a key in each table, the one in ht[1] stored
\* with the second value in a bucket the rehash has not reached; dictAdd of
\* either is refused
C39_Witness ==
    /\ dictIsRehashing(d)
    /\ d.ht[0].used >= 2
    /\ \E k1 \in HtKeys(d.ht[0]), k2 \in HtKeys(d.ht[1]) :
          /\ live[k2] = 2
          /\ BitAnd(dictHashKey(k2), d.ht[0].sizemask) > d.rehashidx
          /\ dictAdd(d, k1, 1, dict_can_resize, 0).ret = DICT_ERR
          /\ dictAdd(d, k2, 1, dict_can_resize, 0).ret = DICT_ERR

\* the offset of the end byte the walk from p reaches entry by entry, NoPtr
\* when it leaves the blob
RECURSIVE WalkEnd(_, _)
WalkEnd(zm, p) ==
    IF p >= Len(zm) THEN NoPtr
    ELSE IF At(zm, p) = ZIPMAP_END THEN p
    ELSE WalkEnd(zm, p + zipmapRawEntryLength(zm, p))
\* the offsets passed to the calls of zipmapNext that do not return NULL,
\* from p on
RECURSIVE NextWalk(_, _)
NextWalk(zm, p) ==
    IF zipmapNext(zm, p) = NoPtr THEN <<>>
    ELSE <<p>> \o NextWalk(zm, zipmapNext(zm, p))
\* the key and the value zipmapNext hands out for the entry at p
KeyOut(zm, p) ==
    [i \in 1..zipmapDecodeLength(zm, p) |->
        At(zm, p + ZIPMAP_LEN_BYTES(zipmapDecodeLength(zm, p)) + i - 1)]
ValueOut(zm, p) == GetValue(zm, p + zipmapRawKeyLength(zm, p)).value
\* the entries come in the order of the blob, each key stored once, with its
\* value
YieldsAll(zm, es) ==
    /\ es = Entries(zm)
    /\ Len(es) = Cardinality(DOMAIN zset)
    /\ \A i \in DOMAIN es :
          /\ At(zm, es[i]) # ZIPMAP_END
          /\ KeyOut(zm, es[i]) \in DOMAIN zset
          /\ ValueOut(zm, es[i]) = zset[KeyOut(zm, es[i])]
          /\ \A j \in DOMAIN es : j < i => es[j] < es[i]
    /\ {KeyOut(zm, es[i]) : i \in DOMAIN es} = DOMAIN zset

\* C40: every zipmap reachable by zipmapNew, zipmapSet and zipmapDel is well
\* formed: walking from offset 1 entry by entry reaches a 0xFF byte exactly
\* at the last byte of the blob, no entry starts with the byte 0xFF,
\* zipmapBlobLen returns the blob's allocated length, and
\* zipmapRewind/zipmapNext yields every entry exactly once in blob order
\* before returning NULL.
C40_ZipmapWellFormed ==
    /\ WalkEnd(zmap, 1) = Len(zmap) - 1
    /\ zipmapBlobLen(zmap) = Len(zmap)
    /\ YieldsAll(zmap, NextWalk(zmap, zipmapRewind(zmap)))
\* three entries, one with free bytes after its value and one whose value
\* holds the byte 0xFF
C40_Witness ==
    /\ Cardinality(DOMAIN zset) = 3
    /\ Len(NextWalk(zmap, zipmapRewind(zmap))) = 3
    /\ \E i \in 1..3 : FreeOf(zmap, Entries(zmap)[i]) > 0
    /\ \E i \in 1..3 : ValueOut(zmap, Entries(zmap)[i]) = <<255, 254>>

====
